---------------------------- MODULE Spec2Model ----------------------------
(***************************************************************************)
(* Model of the knowledge graph store (knowledge_graph.py) and the         *)
(* document store (document_store.py) of DocIntel.                         *)
(*                                                                         *)
(* Python strings are sequences of one-character strings, so that          *)
(* lower(), strip(), title(), startswith(), find() and the regular         *)
(* expression of the keyword extractor are computed on the characters.     *)
(* Python dicts whose iteration order the code depends on (_entities,      *)
(* _relationships, _documents) are sequences in insertion order; the       *)
(* index dicts are functions with an explicit finite domain.  A float is   *)
(* an exact fraction [num, den] in lowest terms (rounding is ignored).     *)
(* md5(...)[:12] is taken to be injective on its input, so an entity id    *)
(* is the hashed content string itself.                                    *)
(***************************************************************************)
EXTENDS Integers, Sequences, FiniteSets, TLC

VARIABLES
    entities,        \* KnowledgeGraphService._entities, in insertion order
    relationships,   \* KnowledgeGraphService._relationships, in insertion order
    entity_index,    \* KnowledgeGraphService._entity_index: text -> set of ids
    doc_entities,    \* KnowledgeGraphService._doc_entities: doc id -> set of ids
    graph_file,      \* content of data/knowledge_graph.json
    documents,       \* DocumentStoreService._documents, in insertion order
    keyword_index,   \* DocumentStoreService._keyword_index: keyword -> doc ids
    store_file,      \* content of data/document_store.json
    clock,           \* datetime.utcnow(), as a logical clock
    nops,            \* number of calls made so far (bounded by MaxOps)
    last,            \* the last call: its name, arguments and return value
    prev,            \* the call before the last one
    runs             \* the add_entities_from_document calls that are under way
                     \* in two threads: their local variables and position

vars == <<entities, relationships, entity_index, doc_entities, graph_file,
          documents, keyword_index, store_file, clock, nops, last, prev, runs>>

graphVars == <<entities, relationships, entity_index, doc_entities, graph_file>>
storeVars == <<documents, keyword_index, store_file>>

\* Bound of the model: the number of calls in one behaviour.
MaxOps == 3

-----------------------------------------------------------------------------
(* Characters and Python's str methods                                     *)

UpperLetters == <<"A","B","C","D","E","F","G","H","I","J","K","L","M",
                  "N","O","P","Q","R","S","T","U","V","W","X","Y","Z">>
LowerLetters == <<"a","b","c","d","e","f","g","h","i","j","k","l","m",
                  "n","o","p","q","r","s","t","u","v","w","x","y","z">>
Digits == {"0","1","2","3","4","5","6","7","8","9"}
Whitespace == {" ", "\t", "\n"}

UpperSet == {UpperLetters[i] : i \in DOMAIN UpperLetters}
LowerSet == {LowerLetters[i] : i \in DOMAIN LowerLetters}
ToLowerTable == [c \in UpperSet |-> LowerLetters[CHOOSE i \in DOMAIN UpperLetters : UpperLetters[i] = c]]
ToUpperTable == [c \in LowerSet |-> UpperLetters[CHOOSE i \in DOMAIN LowerLetters : LowerLetters[i] = c]]
IsUpper(c) == c \in UpperSet
IsLower(c) == c \in LowerSet
IsAlpha(c) == IsUpper(c) \/ IsLower(c)
\* \w of Python's re module, on ASCII
IsWordChar(c) == IsAlpha(c) \/ c \in Digits \/ c = "_"

LowerChar(c) ==
    IF IsUpper(c) THEN ToLowerTable[c]
    ELSE c
UpperChar(c) ==
    IF IsLower(c) THEN ToUpperTable[c]
    ELSE c

\* str.lower()
Lower(s) == [i \in 1..Len(s) |-> LowerChar(s[i])]

\* str.title(): a cased character is upper-cased when it follows an uncased
\* character (or starts the string) and lower-cased otherwise.
Title(s) ==
    [i \in 1..Len(s) |->
        IF i > 1 /\ IsAlpha(s[i-1]) THEN LowerChar(s[i]) ELSE UpperChar(s[i])]

\* str.strip()
RECURSIVE LStrip(_)
LStrip(s) == IF s # <<>> /\ Head(s) \in Whitespace THEN LStrip(Tail(s)) ELSE s
RECURSIVE RStrip(_)
RStrip(s) ==
    IF s # <<>> /\ s[Len(s)] \in Whitespace THEN RStrip(SubSeq(s, 1, Len(s) - 1)) ELSE s
Strip(s) == RStrip(LStrip(s))

\* str.startswith(p)
StartsWith(s, p) == Len(p) <= Len(s) /\ SubSeq(s, 1, Len(p)) = p

\* the positions (0-based, as in Python) where needle occurs in hay
Occurrences(hay, needle) ==
    {p \in 0..(Len(hay) - Len(needle)) : SubSeq(hay, p + 1, p + Len(needle)) = needle}
\* needle in hay
Contains(hay, needle) == Occurrences(hay, needle) # {}
\* hay.find(needle)
Find(hay, needle) ==
    IF Occurrences(hay, needle) = {} THEN -1
    ELSE CHOOSE p \in Occurrences(hay, needle) : \A q \in Occurrences(hay, needle) : p <= q

\* str.split(): the maximal runs of non-whitespace characters. The string is
\* cut at a whitespace character next to its middle and the two parts are
\* split (a whitespace character belongs to no word, so any of them would do;
\* the middle keeps the evaluation shallow on long texts)
RECURSIVE Split(_)
Split(s) ==
    IF \A i \in DOMAIN s : s[i] \notin Whitespace
    THEN (IF s = <<>> THEN <<>> ELSE <<s>>)
    ELSE LET mid == (Len(s) + 1) \div 2
             k == IF \E i \in mid..Len(s) : s[i] \in Whitespace
                  THEN CHOOSE i \in mid..Len(s) :
                        s[i] \in Whitespace /\ \A j \in mid..(i - 1) : s[j] \notin Whitespace
                  ELSE CHOOSE i \in 1..(mid - 1) :
                        s[i] \in Whitespace /\ \A j \in (i + 1)..(mid - 1) : s[j] \notin Whitespace
         IN  Split(SubSeq(s, 1, k - 1)) \o Split(SubSeq(s, k + 1, Len(s)))

\* ' '.join(words), joined by halves
RECURSIVE JoinSpace(_)
JoinSpace(words) ==
    IF words = <<>> THEN <<>>
    ELSE IF Len(words) = 1 THEN words[1]
    ELSE LET mid == Len(words) \div 2
         IN  JoinSpace(SubSeq(words, 1, mid)) \o <<" ">>
                \o JoinSpace(SubSeq(words, mid + 1, Len(words)))

Min(a, b) == IF a <= b THEN a ELSE b
Max(a, b) == IF a >= b THEN a ELSE b
Range(s) == {s[i] : i \in DOMAIN s}

-----------------------------------------------------------------------------
(* Floats, as exact fractions                                               *)

RECURSIVE Gcd(_, _)
Gcd(a, b) == IF b = 0 THEN a ELSE Gcd(b, a % b)
Frac(n, d) == [num |-> n \div Gcd(n, d), den |-> d \div Gcd(n, d)]
FracAdd(x, y) == Frac(x.num * y.den + y.num * x.den, x.den * y.den)
FracDivInt(x, k) == Frac(x.num, x.den * k)
FracLess(x, y) == x.num * y.den < y.num * x.den
Zero == Frac(0, 1)
One == Frac(1, 1)
Half == Frac(1, 2)
Fifth == Frac(1, 5)

\* sum(...) of a sequence of fractions
RECURSIVE FracSum(_)
FracSum(xs) == IF xs = <<>> THEN Zero ELSE FracAdd(Head(xs), FracSum(Tail(xs)))

-----------------------------------------------------------------------------
(* Python dicts used as indexes                                             *)

EmptyDict == [k \in {} |-> {}]
DictGet(d, k, default) == IF k \in DOMAIN d THEN d[k] ELSE default
DictPut(d, k, v) == [x \in (DOMAIN d) \cup {k} |-> IF x = k THEN v ELSE d[x]]
\* d[k].add(v) on a dict of sets (a defaultdict(set), or after the
\* "if k not in d: d[k] = set()" of the document store)
DictAdd(d, k, v) == DictPut(d, k, DictGet(d, k, {}) \cup {v})

-----------------------------------------------------------------------------
(* knowledge_graph.py: entities, relationships, canonicalization            *)

PERSON == <<"P","E","R","S","O","N">>
ORG == <<"O","R","G">>
LOC == <<"L","O","C">>
MISC == <<"M","I","S","C">>
CO_OCCURS == "CO_OCCURS"

\* prefixes of _canonicalize, in the order the loop tries them
Prefixes == << <<"M","r",".">>,
               <<"M","r","s",".">>,
               <<"M","s",".">>,
               <<"D","r",".">>,
               <<"P","r","o","f",".">>,
               <<"T","h","e"," ">> >>

\* KnowledgeGraphService._canonicalize: one pass over the prefixes, each
\* tried once on what the previous ones left
RECURSIVE StripPrefixes(_, _)
StripPrefixes(canonical, i) ==
    IF i > Len(Prefixes) THEN canonical
    ELSE StripPrefixes(
            IF StartsWith(canonical, Prefixes[i])
            THEN Strip(SubSeq(canonical, Len(Prefixes[i]) + 1, Len(canonical)))
            ELSE canonical,
            i + 1)

Canonicalize(text, entity_type) ==
    LET canonical == StripPrefixes(Strip(text), 1)
    IN  IF entity_type \in {PERSON, ORG} THEN Title(canonical) ELSE canonical

\* KnowledgeGraphService._generate_id: the content that is hashed
GenerateId(text, entity_type) == Lower(text) \o <<":">> \o entity_type

\* add_mention keeping only the newest mention
AddMention_Latest(entity, doc_id, context, confidence, ts) ==
    [entity EXCEPT !.mentions =
        <<[document_id |-> doc_id, context |-> context,
           confidence |-> confidence, timestamp |-> ts]>>]

\* Entity.add_mention
AddMention(entity, doc_id, context, confidence, ts) ==
    [entity EXCEPT !.mentions = Append(@,
        [document_id |-> doc_id, context |-> context,
         confidence |-> confidence, timestamp |-> ts])]

\* faulty variant (sensitivity of C4): the confidence of the newest evidence
\* replaces the overall confidence
AddEvidence_Latest(rel, doc_id, sentence, confidence) ==
    [rel EXCEPT
        !.evidence = Append(@,
            [document_id |-> doc_id, sentence |-> sentence, confidence |-> confidence]),
        !.confidence = confidence]

\* Relationship.add_evidence
AddEvidence(rel, doc_id, sentence, confidence) ==
    LET evidence == Append(rel.evidence,
            [document_id |-> doc_id, sentence |-> sentence, confidence |-> confidence])
    IN  [rel EXCEPT
            !.evidence = evidence,
            !.confidence = FracDivInt(
                FracSum([i \in 1..Len(evidence) |-> evidence[i].confidence]),
                Len(evidence))]

\* position of the item with this id in an insertion-ordered dict, 0 if absent
PosOf(items, id) ==
    IF \E i \in DOMAIN items : items[i].id = id
    THEN CHOOSE i \in DOMAIN items : items[i].id = id
    ELSE 0
HasId(items, id) == PosOf(items, id) # 0
Ids(items) == {items[i].id : i \in DOMAIN items}

\* the in-memory state of a KnowledgeGraphService
EmptyGraph ==
    [entities |-> <<>>, relationships |-> <<>>,
     entity_index |-> EmptyDict, doc_entities |-> EmptyDict]
Graph ==
    [entities |-> entities, relationships |-> relationships,
     entity_index |-> entity_index, doc_entities |-> doc_entities]

\* faulty variant (sensitivity of C1): the id is derived from the raw text
AddEntityId_FromRawText(text, entity_type) == GenerateId(text, entity_type)

\* the first two lines of add_entity: the id of the entity it returns
AddEntityId(text, entity_type) == GenerateId(Canonicalize(text, entity_type), entity_type)

\* KnowledgeGraphService.add_entity, up to the call of _save_graph
GAddEntity(g, text, entity_type, doc_id, context, confidence, ts) ==
    LET canonical == Canonicalize(text, entity_type)
        entity_id == AddEntityId(text, entity_type)
        pos == PosOf(g.entities, entity_id)
        created == AddMention(
            [id |-> entity_id, text |-> text, canonical_name |-> canonical,
             entity_type |-> entity_type, mentions |-> <<>>, attributes |-> EmptyDict],
            doc_id, context, confidence, ts)
    IN  IF pos # 0
        THEN [g EXCEPT
                !.entities[pos] = AddMention(@, doc_id, context, confidence, ts),
                !.doc_entities = DictAdd(@, doc_id, entity_id)]
        ELSE [g EXCEPT
                !.entities = Append(@, created),
                !.entity_index = DictAdd(@, Lower(text), entity_id),
                !.doc_entities = DictAdd(@, doc_id, entity_id)]

\* f"{source_id}_{relation_type}_{target_id}": entity ids are 12 hex digits, so
\* the three parts can be read back from the string
RelId(source_id, relation_type, target_id) == <<source_id, relation_type, target_id>>

\* faulty variants (sensitivity of C2 and C3): "and" for "or" in the guard;
\* only the source is looked up
EndpointsExist_Either(g, source_id, target_id) ==
    HasId(g.entities, source_id) \/ HasId(g.entities, target_id)
EndpointsExist_SourceOnly(g, source_id, target_id) == HasId(g.entities, source_id)

\* the guard of add_relationship: both endpoints are entities
EndpointsExist(g, source_id, target_id) ==
    HasId(g.entities, source_id) /\ HasId(g.entities, target_id)

\* add_relationship creating the relationship anew when it exists already
GAddRelationship_Overwrite(g, source_id, target_id, relation_type, doc_id, sentence, confidence) ==
    LET rel_id == RelId(source_id, relation_type, target_id)
        pos == PosOf(g.relationships, rel_id)
        created == AddEvidence(
            [id |-> rel_id, source_entity_id |-> source_id, target_entity_id |-> target_id,
             relation_type |-> relation_type, evidence |-> <<>>, confidence |-> confidence],
            doc_id, sentence, confidence)
    IN  IF ~EndpointsExist(g, source_id, target_id) THEN g
        ELSE IF pos # 0
        THEN [g EXCEPT !.relationships[pos] = created]
        ELSE [g EXCEPT !.relationships = Append(@, created)]

\* KnowledgeGraphService.add_relationship, up to the call of _save_graph
GAddRelationship(g, source_id, target_id, relation_type, doc_id, sentence, confidence) ==
    LET rel_id == RelId(source_id, relation_type, target_id)
        pos == PosOf(g.relationships, rel_id)
        created == AddEvidence(
            [id |-> rel_id, source_entity_id |-> source_id, target_entity_id |-> target_id,
             relation_type |-> relation_type, evidence |-> <<>>, confidence |-> confidence],
            doc_id, sentence, confidence)
    IN  IF ~EndpointsExist(g, source_id, target_id) THEN g
        ELSE IF pos # 0
        THEN [g EXCEPT !.relationships[pos] = AddEvidence(@, doc_id, sentence, confidence)]
        ELSE [g EXCEPT !.relationships = Append(@, created)]

-----------------------------------------------------------------------------
(* knowledge_graph.py: persistence                                          *)

\* data/knowledge_graph.json: absent, unreadable (a write that stopped half
\* way), or the lists _save_graph wrote.  The metadata block (time stamp and
\* counts) is never read back and is left out.
NoGraphFile == [kind |-> "none", entities |-> <<>>, relationships |-> <<>>]
CorruptGraphFile == [kind |-> "corrupt", entities |-> <<>>, relationships |-> <<>>]

\* faulty variant (sensitivity of C11): the relationships are not written
GraphSnapshot_EntitiesOnly(g) ==
    [kind |-> "data", entities |-> g.entities, relationships |-> <<>>]

\* KnowledgeGraphService._save_graph: what a successful write leaves on disk
GraphSnapshot(g) ==
    [kind |-> "data", entities |-> g.entities, relationships |-> g.relationships]

\* KnowledgeGraphService._load_graph (after __init__ emptied the maps): the
\* indexes are rebuilt from each entity's text and mentions
RECURSIVE LoadEntities(_, _)
LoadEntities(g, entity_list) ==
    IF entity_list = <<>> THEN g
    ELSE LET entity == Head(entity_list)
             pos == PosOf(g.entities, entity.id)
             mention_docs == {entity.mentions[i].document_id : i \in DOMAIN entity.mentions}
             withEntity ==
                [g EXCEPT
                    !.entities = IF pos # 0 THEN [@ EXCEPT ![pos] = entity]
                                 ELSE Append(@, entity),
                    !.entity_index = DictAdd(@, Lower(entity.text), entity.id),
                    !.doc_entities =
                        [d \in (DOMAIN @) \cup mention_docs |->
                            IF d \in mention_docs
                            THEN DictGet(@, d, {}) \cup {entity.id}
                            ELSE @[d]]]
         IN  LoadEntities(withEntity, Tail(entity_list))

RECURSIVE LoadRelationships(_, _)
LoadRelationships(g, rel_list) ==
    IF rel_list = <<>> THEN g
    ELSE LET rel == Head(rel_list)
             pos == PosOf(g.relationships, rel.id)
         IN  LoadRelationships(
                [g EXCEPT !.relationships =
                    IF pos # 0 THEN [@ EXCEPT ![pos] = rel] ELSE Append(@, rel)],
                Tail(rel_list))

\* the snapshots of the states a call saved, in order
GraphSnapshots(states) == [i \in 1..Len(states) |-> GraphSnapshot(states[i])]

LoadGraph(file) ==
    IF file.kind = "data"
    THEN LoadRelationships(LoadEntities(EmptyGraph, file.entities), file.relationships)
    ELSE EmptyGraph

\* The file after a call that wrote the snapshots of `trace` one after the other.
\* Each write either succeeds, fails before the file is opened (the file keeps
\* its content) or fails half way (the file is unreadable): pick = k > 0 says
\* the k-th write was the last to succeed and later ones left the file alone,
\* pick = 0 that no write touched the file, pick = -1 that the last write to
\* touch the file stopped half way.
FileAfter(file, trace, pick, corrupt) ==
    IF pick = 0 THEN file
    ELSE IF pick = -1 THEN corrupt
    ELSE trace[pick]
Picks(trace, faults) ==
    IF trace = <<>> THEN {0}
    ELSE IF faults THEN -1..Len(trace)
    ELSE {Len(trace)}

-----------------------------------------------------------------------------
(* knowledge_graph.py: ingestion of a document                              *)

\* window of _extract_context
Window == 100

\* KnowledgeGraphService._extract_context
ExtractContext(full_text, entity_text, window) ==
    LET pos == Find(Lower(full_text), Lower(entity_text))
        start == Max(0, pos - window)
        end == Min(Len(full_text), pos + Len(entity_text) + window)
    IN  IF pos = -1 THEN <<>> ELSE Strip(SubSeq(full_text, start + 1, end))

\* entity_data.get("text", ""), .get("label", "MISC"), .get("score", 1.0)
RecordText(r) == IF "text" \in DOMAIN r THEN r.text ELSE <<>>
RecordLabel(r) == IF "label" \in DOMAIN r THEN r.label ELSE MISC
RecordScore(r) == IF "score" \in DOMAIN r THEN r.score ELSE One

\* the loop of add_entities_from_document: one add_entity (and one save) per record
RECURSIVE EntitiesLoop(_, _, _, _, _, _, _)
EntitiesLoop(g, doc_id, records, full_text, ts, added, trace) ==
    IF records = <<>> THEN [g |-> g, added |-> added, trace |-> trace]
    ELSE LET r == Head(records)
             g2 == GAddEntity(g, RecordText(r), RecordLabel(r), doc_id,
                        ExtractContext(full_text, RecordText(r), Window),
                        RecordScore(r), ts)
         IN  EntitiesLoop(g2, doc_id, Tail(records), full_text, ts + 1,
                Append(added, AddEntityId(RecordText(r), RecordLabel(r))),
                Append(trace, g2))

\* evidence text of a co-occurrence: f"Both mentioned in document {doc_id}"
CoOccurSentence(doc_id) == <<"Both mentioned in document", doc_id>>

\* faulty variant (sensitivity of C5): the inner loop runs over all of
\* entity_ids instead of entity_ids[i+1:]
RECURSIVE CooccurrenceLoop_AllPairs(_, _, _, _, _, _)
CooccurrenceLoop_AllPairs(g, doc_id, entity_ids, i, j, trace) ==
    IF i > Len(entity_ids) THEN [g |-> g, trace |-> trace]
    ELSE IF j > Len(entity_ids)
    THEN CooccurrenceLoop_AllPairs(g, doc_id, entity_ids, i + 1, 1, trace)
    ELSE IF entity_ids[i] # entity_ids[j]
    THEN LET g2 == GAddRelationship(g, entity_ids[i], entity_ids[j], CO_OCCURS,
                        doc_id, <<"Both mentioned in document", doc_id>>, Half)
         IN  CooccurrenceLoop_AllPairs(g2, doc_id, entity_ids, i, j + 1,
                IF EndpointsExist(g, entity_ids[i], entity_ids[j])
                THEN Append(trace, g2) ELSE trace)
    ELSE CooccurrenceLoop_AllPairs(g, doc_id, entity_ids, i, j + 1, trace)

\* faulty variant (sensitivity of C30): only the pairs of neighbours in
\* entity_ids get a relationship
RECURSIVE CooccurrenceLoop_Neighbours(_, _, _, _, _, _)
CooccurrenceLoop_Neighbours(g, doc_id, entity_ids, i, j, trace) ==
    IF i >= Len(entity_ids) THEN [g |-> g, trace |-> trace]
    ELSE IF entity_ids[i] # entity_ids[i + 1]
    THEN LET g2 == GAddRelationship(g, entity_ids[i], entity_ids[i + 1], CO_OCCURS,
                        doc_id, CoOccurSentence(doc_id), Half)
         IN  CooccurrenceLoop_Neighbours(g2, doc_id, entity_ids, i + 1, i + 2,
                IF EndpointsExist(g, entity_ids[i], entity_ids[i + 1])
                THEN Append(trace, g2) ELSE trace)
    ELSE CooccurrenceLoop_Neighbours(g, doc_id, entity_ids, i + 1, i + 2, trace)

\* KnowledgeGraphService._detect_cooccurrence_relationships: the two nested
\* loops over entity_ids, i before j, one add_relationship (and one save) for
\* each pair of different ids
RECURSIVE CooccurrenceLoop(_, _, _, _, _, _)
CooccurrenceLoop(g, doc_id, entity_ids, i, j, trace) ==
    IF i > Len(entity_ids) THEN [g |-> g, trace |-> trace]
    ELSE IF j > Len(entity_ids)
    THEN CooccurrenceLoop(g, doc_id, entity_ids, i + 1, i + 2, trace)
    ELSE IF entity_ids[i] # entity_ids[j]
    THEN LET g2 == GAddRelationship(g, entity_ids[i], entity_ids[j], CO_OCCURS,
                        doc_id, CoOccurSentence(doc_id), Half)
         IN  CooccurrenceLoop(g2, doc_id, entity_ids, i, j + 1,
                IF EndpointsExist(g, entity_ids[i], entity_ids[j])
                THEN Append(trace, g2) ELSE trace)
    ELSE CooccurrenceLoop(g, doc_id, entity_ids, i, j + 1, trace)

\* KnowledgeGraphService.add_entities_from_document: the final state, the ids
\* of the returned entities and the states written to disk on the way
GIngest(g, doc_id, records, full_text, ts) ==
    LET afterEntities == EntitiesLoop(g, doc_id, records, full_text, ts, <<>>, <<>>)
        afterPairs == CooccurrenceLoop(afterEntities.g, doc_id, afterEntities.added,
                        1, 2, afterEntities.trace)
    IN  [g |-> afterPairs.g, added |-> afterEntities.added, trace |-> afterPairs.trace]

-----------------------------------------------------------------------------
(* knowledge_graph.py: queries                                              *)

\* the entity with this id (get_entity)
EntityOf(g, entity_id) == g.entities[PosOf(g.entities, entity_id)]

\* KnowledgeGraphService.find_entity: the ids of the entities it returns
FindEntity(g, text) ==
    {eid \in DictGet(g.entity_index, Lower(text), {}) : HasId(g.entities, eid)}

\* seq[:n] of Python
SliceTo(seq, n) ==
    IF n >= 0 THEN SubSeq(seq, 1, Min(n, Len(seq)))
    ELSE SubSeq(seq, 1, Max(0, Len(seq) + n))

\* list.sort(key=..., reverse=True) on a list of [key, item]: stable, so
\* items of equal key keep their order
RECURSIVE InsertByKeyDesc(_, _)
InsertByKeyDesc(sorted, x) ==
    IF sorted = <<>> THEN <<x>>
    ELSE IF Head(sorted).key >= x.key
         THEN <<Head(sorted)>> \o InsertByKeyDesc(Tail(sorted), x)
         ELSE <<x>> \o sorted
RECURSIVE SortByKeyDesc(_)
SortByKeyDesc(seq) ==
    IF seq = <<>> THEN <<>>
    ELSE InsertByKeyDesc(SortByKeyDesc(SubSeq(seq, 1, Len(seq) - 1)), seq[Len(seq)])

\* the test of search_entities: the query occurs in the text or the canonical name
EntityMatches(entity, query) ==
    \/ Contains(Lower(entity.text), Lower(query))
    \/ Contains(Lower(entity.canonical_name), Lower(query))

\* the loop of search_entities, with its break once `limit` matches are collected
RECURSIVE SearchLoop(_, _, _, _)
SearchLoop(entity_list, query, limit, results) ==
    IF entity_list = <<>> THEN results
    ELSE IF EntityMatches(Head(entity_list), query)
    THEN LET grown == Append(results, Head(entity_list))
         IN  IF Len(grown) >= limit THEN grown
             ELSE SearchLoop(Tail(entity_list), query, limit, grown)
    ELSE SearchLoop(Tail(entity_list), query, limit, results)

\* KnowledgeGraphService.search_entities: the ids of the entities it returns, in order
SearchEntities(g, query, limit) ==
    LET results == SearchLoop(g.entities, query, limit, <<>>)
        keyed == [i \in 1..Len(results) |->
                    [key |-> Len(results[i].mentions), item |-> results[i].id]]
        sorted == SortByKeyDesc(keyed)
    IN  SliceTo([i \in 1..Len(sorted) |-> sorted[i].item], limit)

\* the orders in which the elements of a Python set may be iterated
Orderings(S) ==
    {seq \in [1..Cardinality(S) -> S] :
        \A i, j \in DOMAIN seq : i # j => seq[i] # seq[j]}

\* connected[other_doc_id].add(name) on the defaultdict(set), whose keys keep
\* the order of their first insertion
ConnectedAdd(connected, other_doc_id, name) ==
    IF \E i \in DOMAIN connected : connected[i].doc_id = other_doc_id
    THEN [i \in DOMAIN connected |->
            IF connected[i].doc_id = other_doc_id
            THEN [connected[i] EXCEPT !.shared = @ \cup {name}]
            ELSE connected[i]]
    ELSE Append(connected, [doc_id |-> other_doc_id, shared |-> {name}])

\* the inner loop of get_connected_documents over the mentions of one entity
RECURSIVE ConnectedMentions(_, _, _, _)
ConnectedMentions(connected, entity, doc_id, k) ==
    IF k > Len(entity.mentions) THEN connected
    ELSE ConnectedMentions(
            IF entity.mentions[k].document_id # doc_id
            THEN ConnectedAdd(connected, entity.mentions[k].document_id,
                              entity.canonical_name)
            ELSE connected,
            entity, doc_id, k + 1)

\* the outer loop over the entity ids of the document, in the order the set
\* lists them; an id without entity is skipped
RECURSIVE ConnectedLoop(_, _, _, _, _)
ConnectedLoop(g, doc_id, order, i, connected) ==
    IF i > Len(order) THEN connected
    ELSE ConnectedLoop(g, doc_id, order, i + 1,
            IF HasId(g.entities, order[i])
            THEN ConnectedMentions(connected, EntityOf(g, order[i]), doc_id, 1)
            ELSE connected)

\* KnowledgeGraphService.get_connected_documents: the tuples (other_doc,
\* len(shared), list(shared)) as [key |-> len(shared), item |-> [doc_id, shared]],
\* shared kept as a set since list(shared) has no fixed order
GetConnectedDocuments(g, doc_id, order) ==
    LET connected == ConnectedLoop(g, doc_id, order, 1, <<>>)
    IN  SortByKeyDesc([i \in DOMAIN connected |->
            [key |-> Cardinality(connected[i].shared), item |-> connected[i]]])

-----------------------------------------------------------------------------
(* The calls on the knowledge graph, as actions                             *)

T_DrAl == <<"D","r","."," ","A","l">>
T_al == <<"a","l">>
T_TheBo == <<"T","h","e"," ","B","o">>
FullTextAlBo == <<"D","r","."," ","A","l"," ","m","e","t"," ","B","o",".">>

\* raw texts given to add_entity directly ("The Bo" arrives through documents)
Texts == {T_DrAl, T_al}
Types == {PERSON, LOC}
Docs == {"d1", "d2"}
Confidences == {One, Fifth}
Sentences == {<<"stated in the text">>}
\* ids given to add_relationship: entities that may or may not exist yet
EndpointIds == {AddEntityId(T_al, PERSON), AddEntityId(T_TheBo, LOC)}
\* the entity records of a document, as the extractor hands them over
RecordLists ==
    { << [text |-> T_DrAl, label |-> PERSON, score |-> One],
         [text |-> T_TheBo, label |-> LOC, score |-> Fifth],
         [text |-> T_al, label |-> LOC, score |-> One] >>,
      << [text |-> T_DrAl, label |-> PERSON, score |-> One],
         [text |-> T_TheBo, label |-> LOC, score |-> One],
         [text |-> T_al, label |-> PERSON] >>,
      << [text |-> T_TheBo, label |-> LOC, score |-> One],
         [text |-> T_al, label |-> PERSON, score |-> Fifth] >> }

Ok(v) == [ok |-> TRUE, val |-> v]
Failure == [ok |-> FALSE, val |-> <<>>]

SetGraph(g) ==
    /\ entities' = g.entities
    /\ relationships' = g.relationships
    /\ entity_index' = g.entity_index
    /\ doc_entities' = g.doc_entities

\* a call that is made at once, from start to return: the calls under way in
\* other threads stay where they are
Called(op, args, ret) ==
    /\ nops' = nops + 1
    /\ last' = [op |-> op, args |-> args, ret |-> ret]
    /\ prev' = last
    /\ runs' = runs

\* add_entity
AddEntity(text, entity_type, doc_id, context, confidence, faults) ==
    /\ nops < MaxOps
    /\ LET g2 == GAddEntity(Graph, text, entity_type, doc_id, context, confidence, clock)
       IN  /\ SetGraph(g2)
           /\ \E pick \in Picks(<<g2>>, faults) :
                graph_file' = FileAfter(graph_file, GraphSnapshots(<<g2>>), pick,
                                        CorruptGraphFile)
    /\ clock' = clock + 1
    /\ Called("add_entity",
              [text |-> text, entity_type |-> entity_type, doc_id |-> doc_id,
               context |-> context, confidence |-> confidence],
              Ok(AddEntityId(text, entity_type)))
    /\ UNCHANGED storeVars

\* add_relationship: returns None, and saves nothing, when an endpoint is missing
AddRelationship(source_id, target_id, relation_type, doc_id, sentence, confidence, faults) ==
    /\ nops < MaxOps
    /\ LET g2 == GAddRelationship(Graph, source_id, target_id, relation_type,
                                  doc_id, sentence, confidence)
           trace == IF EndpointsExist(Graph, source_id, target_id) THEN <<g2>> ELSE <<>>
       IN  /\ SetGraph(g2)
           /\ \E pick \in Picks(trace, faults) :
                graph_file' = FileAfter(graph_file, GraphSnapshots(trace), pick,
                                        CorruptGraphFile)
    /\ Called("add_relationship",
              [source_id |-> source_id, target_id |-> target_id,
               relation_type |-> relation_type, doc_id |-> doc_id,
               sentence |-> sentence, confidence |-> confidence],
              IF EndpointsExist(Graph, source_id, target_id)
              THEN Ok(RelId(source_id, relation_type, target_id))
              ELSE Failure)
    /\ UNCHANGED <<storeVars, clock>>

\* add_entities_from_document
AddEntitiesFromDocument(doc_id, records, full_text, faults) ==
    /\ nops < MaxOps
    /\ LET run == GIngest(Graph, doc_id, records, full_text, clock)
       IN  /\ SetGraph(run.g)
           /\ \E pick \in Picks(run.trace, faults) :
                graph_file' = FileAfter(graph_file, GraphSnapshots(run.trace), pick,
                                        CorruptGraphFile)
           /\ Called("add_entities_from_document",
                     [doc_id |-> doc_id, records |-> records],
                     Ok(run.added))
    /\ clock' = clock + Len(records)
    /\ UNCHANGED storeVars

\* clear_graph
ClearGraph(faults) ==
    /\ nops < MaxOps
    /\ SetGraph(EmptyGraph)
    /\ \E pick \in Picks(<<EmptyGraph>>, faults) :
            graph_file' = FileAfter(graph_file, GraphSnapshots(<<EmptyGraph>>), pick,
                                        CorruptGraphFile)
    /\ Called("clear_graph", <<>>, Ok(<<>>))
    /\ UNCHANGED <<storeVars, clock>>

-----------------------------------------------------------------------------
(* document_store.py: keywords, chunks, documents                           *)

\* the stopwords of _extract_keywords
Stopwords ==
    { <<"t","h","e">>, <<"a","n","d">>, <<"f","o","r">>,
      <<"t","h","a","t">>, <<"t","h","i","s">>, <<"w","i","t","h">>,
      <<"a","r","e">>, <<"w","a","s">>, <<"w","e","r","e">>,
      <<"b","e","e","n">>, <<"h","a","v","e">>, <<"h","a","s">>,
      <<"h","a","d">>, <<"f","r","o","m">>, <<"t","h","e","y">>,
      <<"w","i","l","l">>, <<"w","o","u","l","d">>, <<"c","o","u","l","d">>,
      <<"s","h","o","u","l","d">>, <<"m","a","y">>, <<"m","i","g","h","t">>,
      <<"c","a","n">>, <<"i","n","t","o">>, <<"w","h","i","c","h">>,
      <<"t","h","e","i","r">>, <<"t","h","e","r","e">>, <<"h","e","r","e">>,
      <<"w","h","e","r","e">>, <<"w","h","e","n">>, <<"w","h","a","t">>,
      <<"w","h","o">>, <<"h","o","w">>, <<"a","l","l">>,
      <<"e","a","c","h">>, <<"e","v","e","r","y">>, <<"b","o","t","h">>,
      <<"f","e","w">>, <<"m","o","r","e">>, <<"m","o","s","t">>,
      <<"o","t","h","e","r">>, <<"s","o","m","e">>, <<"s","u","c","h">>,
      <<"t","h","a","n">>, <<"t","o","o">>, <<"v","e","r","y">>,
      <<"j","u","s","t">>, <<"a","l","s","o">>, <<"n","o","w">>,
      <<"o","n","l","y">>, <<"e","v","e","n">>, <<"b","a","c","k">>,
      <<"a","f","t","e","r">>, <<"b","e","f","o","r","e">>, <<"o","v","e","r">>,
      <<"u","n","d","e","r">>, <<"a","g","a","i","n">>, <<"f","u","r","t","h","e","r">>,
      <<"t","h","e","n">>, <<"o","n","c","e">>, <<"a","b","o","u","t">> }

\* top_n of _extract_keywords
TopN == 20
\* chunk_size and overlap of _chunk_document
ChunkSize == 500
Overlap == 100

\* the maximal runs of \w characters of a string, found as Split finds the
\* runs of non-whitespace characters
RECURSIVE WordRuns(_)
WordRuns(s) ==
    IF \A i \in DOMAIN s : IsWordChar(s[i])
    THEN (IF s = <<>> THEN <<>> ELSE <<s>>)
    ELSE LET mid == (Len(s) + 1) \div 2
             k == IF \E i \in mid..Len(s) : ~IsWordChar(s[i])
                  THEN CHOOSE i \in mid..Len(s) :
                        ~IsWordChar(s[i]) /\ \A j \in mid..(i - 1) : IsWordChar(s[j])
                  ELSE CHOOSE i \in 1..(mid - 1) :
                        ~IsWordChar(s[i]) /\ \A j \in (i + 1)..(mid - 1) : IsWordChar(s[j])
         IN  WordRuns(SubSeq(s, 1, k - 1)) \o WordRuns(SubSeq(s, k + 1, Len(s)))

\* re.findall(r'\b[a-zA-Z]{3,}\b', s): a match starts and ends at a word
\* boundary, so it is a whole run of \w characters, made of letters only and
\* at least three of them
RegexWords(s) ==
    SelectSeq(WordRuns(s),
              LAMBDA w : Len(w) >= 3 /\ \A i \in DOMAIN w : IsAlpha(w[i]))

\* word_freq of _extract_keywords: the distinct words in order of first
\* occurrence, each with its count
RECURSIVE CountWords(_, _)
CountWords(words, freq) ==
    IF words = <<>> THEN freq
    ELSE LET w == Head(words)
             known == \E i \in DOMAIN freq : freq[i].item = w
         IN  CountWords(Tail(words),
                IF known
                THEN [i \in DOMAIN freq |->
                        IF freq[i].item = w
                        THEN [key |-> freq[i].key + 1, item |-> w] ELSE freq[i]]
                ELSE Append(freq, [key |-> 1, item |-> w]))

\* DocumentStoreService._extract_keywords
ExtractKeywords(text, top_n) ==
    LET words == RegexWords(Lower(text))
        filtered_words == SelectSeq(words, LAMBDA w : w \notin Stopwords /\ Len(w) > 3)
        sorted_words == SortByKeyDesc(CountWords(filtered_words, <<>>))
    IN  SliceTo([i \in 1..Len(sorted_words) |-> sorted_words[i].item], top_n)

\* _chunk_document advancing by the whole chunk_size
RECURSIVE ChunkLoop_NoOverlap(_, _, _, _, _, _)
ChunkLoop_NoOverlap(words, start, chunk_idx, chunk_size, overlap, chunks) ==
    IF ~(start < Len(words)) THEN chunks
    ELSE LET end == Min(start + chunk_size, Len(words))
         IN  ChunkLoop_NoOverlap(words, start + chunk_size, chunk_idx + 1,
                chunk_size, overlap,
                Append(chunks,
                    [index |-> chunk_idx, text |-> JoinSpace(SubSeq(words, start + 1, end)),
                     start_word |-> start, end_word |-> end]))

\* DocumentStoreService._chunk_document
RECURSIVE ChunkLoop(_, _, _, _, _, _)
ChunkLoop(words, start, chunk_idx, chunk_size, overlap, chunks) ==
    IF ~(start < Len(words)) THEN chunks
    ELSE LET end == Min(start + chunk_size, Len(words))
         IN  ChunkLoop(words, start + chunk_size - overlap, chunk_idx + 1,
                chunk_size, overlap,
                Append(chunks,
                    [index |-> chunk_idx, text |-> JoinSpace(SubSeq(words, start + 1, end)),
                     start_word |-> start, end_word |-> end]))
ChunkDocument(text, chunk_size, overlap) ==
    ChunkLoop(Split(text), 0, 0, chunk_size, overlap, <<>>)

\* the in-memory state of a DocumentStoreService
EmptyStore == [documents |-> <<>>, keyword_index |-> EmptyDict]
Store == [documents |-> documents, keyword_index |-> keyword_index]

\* d[k].add(v) for each k of a list
RECURSIVE DictAddAll(_, _, _)
DictAddAll(d, keys, v) ==
    IF keys = <<>> THEN d ELSE DictAddAll(DictAdd(d, Head(keys), v), Tail(keys), v)

\* "if k in d: d[k].discard(v)" for each k of a list
RECURSIVE DictDiscardAll(_, _, _)
DictDiscardAll(d, keys, v) ==
    IF keys = <<>> THEN d
    ELSE DictDiscardAll(
            IF Head(keys) \in DOMAIN d THEN DictPut(d, Head(keys), d[Head(keys)] \ {v}) ELSE d,
            Tail(keys), v)

\* _documents[doc.id] = doc: a key that exists keeps its place in the dict
PutDocument(docs, doc) ==
    IF HasId(docs, doc.id) THEN [docs EXCEPT ![PosOf(docs, doc.id)] = doc]
    ELSE Append(docs, doc)

\* add_document keeping only the keywords no stored document has yet
SAddDocument_FreshKeywords(st, doc_id, filename, content, summary, file_type, entity_ids, metadata, ts) ==
    LET keywords == SelectSeq(ExtractKeywords(content, TopN),
                              LAMBDA k : DictGet(st.keyword_index, k, {}) = {})
        doc == [id |-> doc_id, filename |-> filename, content |-> content,
                summary |-> summary, upload_date |-> ts, file_type |-> file_type,
                word_count |-> Len(Split(content)), entity_ids |-> entity_ids,
                keywords |-> keywords,
                chunks |-> ChunkDocument(content, ChunkSize, Overlap),
                metadata |-> metadata]
    IN  [documents |-> PutDocument(st.documents, doc),
         keyword_index |-> DictAddAll(st.keyword_index, keywords, doc_id)]

\* DocumentStoreService.add_document, up to the call of _save_store
SAddDocument(st, doc_id, filename, content, summary, file_type, entity_ids, metadata, ts) ==
    LET keywords == ExtractKeywords(content, TopN)
        doc == [id |-> doc_id, filename |-> filename, content |-> content,
                summary |-> summary, upload_date |-> ts, file_type |-> file_type,
                word_count |-> Len(Split(content)), entity_ids |-> entity_ids,
                keywords |-> keywords,
                chunks |-> ChunkDocument(content, ChunkSize, Overlap),
                metadata |-> metadata]
    IN  [documents |-> PutDocument(st.documents, doc),
         keyword_index |-> DictAddAll(st.keyword_index, keywords, doc_id)]

\* faulty variant (sensitivity of C9): the keyword buckets are cleaned but the
\* document itself is not removed
SDeleteDocument_KeepsDocument(st, doc_id) ==
    IF ~HasId(st.documents, doc_id) THEN st
    ELSE [st EXCEPT !.keyword_index =
            DictDiscardAll(@, st.documents[PosOf(st.documents, doc_id)].keywords, doc_id)]

\* DocumentStoreService.delete_document, up to the call of _save_store
SDeleteDocument(st, doc_id) ==
    IF ~HasId(st.documents, doc_id) THEN st
    ELSE LET pos == PosOf(st.documents, doc_id)
             doc == st.documents[pos]
         IN  [documents |-> SubSeq(st.documents, 1, pos - 1)
                            \o SubSeq(st.documents, pos + 1, Len(st.documents)),
              keyword_index |-> DictDiscardAll(st.keyword_index, doc.keywords, doc_id)]

\* data/document_store.json
NoStoreFile == [kind |-> "none", documents |-> <<>>]
CorruptStoreFile == [kind |-> "corrupt", documents |-> <<>>]
\* DocumentStoreService._save_store: what a successful write leaves on disk
StoreSnapshot(st) == [kind |-> "data", documents |-> st.documents]

StoreSnapshots(states) == [i \in 1..Len(states) |-> StoreSnapshot(states[i])]

\* DocumentStoreService._load_store
RECURSIVE LoadDocuments(_, _)
LoadDocuments(st, doc_list) ==
    IF doc_list = <<>> THEN st
    ELSE LET doc == Head(doc_list)
         IN  LoadDocuments(
                [documents |-> PutDocument(st.documents, doc),
                 keyword_index |-> DictAddAll(st.keyword_index, doc.keywords, doc.id)],
                Tail(doc_list))
LoadStore(file) ==
    IF file.kind = "data" THEN LoadDocuments(EmptyStore, file.documents) ELSE EmptyStore

\* DocumentStoreService.search_by_keyword: the ids of the documents it returns
SearchByKeyword(st, keyword) ==
    {did \in DictGet(st.keyword_index, Lower(keyword), {}) : HasId(st.documents, did)}

\* search_full_text without the sort of its results
SearchFullText_Unsorted(st, query, max_results) ==
    LET query_words == Range(Split(Lower(query)))
        Score(doc) ==
            Cardinality({w \in query_words : Contains(Lower(doc.content), w)})
            + 2 * Cardinality({w \in query_words : w \in Range(doc.keywords)})
        scored == [i \in 1..Len(st.documents) |->
                    [key |-> Score(st.documents[i]), item |-> st.documents[i].id]]
    IN  SliceTo(SelectSeq(scored, LAMBDA r : r.key > 0), max_results)

\* DocumentStoreService.search_full_text: the (document id, score) pairs, in order
SearchFullText(st, query, max_results) ==
    LET query_words == Range(Split(Lower(query)))
        Score(doc) ==
            Cardinality({w \in query_words : Contains(Lower(doc.content), w)})
            + 2 * Cardinality({w \in query_words : w \in Range(doc.keywords)})
        scored == [i \in 1..Len(st.documents) |->
                    [key |-> Score(st.documents[i]), item |-> st.documents[i].id]]
        results == SortByKeyDesc(SelectSeq(scored, LAMBDA r : r.key > 0))
    IN  SliceTo(results, max_results)

-----------------------------------------------------------------------------
(* The calls on the document store, as actions                              *)

ContentAlpha == <<"A","l","p","h","a"," ","b","e","t","a"," ","a","l","p","h","a">>
ContentGamma == <<"G","a","m","m","a"," ","b","e","t","a",".">>
ContentCat == <<"t","h","e"," ","c","a","t"," ","s","a","t">>
Contents == {ContentAlpha, ContentGamma, ContentCat}

SetStore(st) ==
    /\ documents' = st.documents
    /\ keyword_index' = st.keyword_index

\* add_document (entity_ids=None and metadata=None become [] and {})
AddDocument(doc_id, filename, content, summary, file_type, faults) ==
    /\ nops < MaxOps
    /\ LET st2 == SAddDocument(Store, doc_id, filename, content, summary, file_type,
                               <<>>, EmptyDict, clock)
       IN  /\ SetStore(st2)
           /\ \E pick \in Picks(<<st2>>, faults) :
                store_file' = FileAfter(store_file, StoreSnapshots(<<st2>>), pick,
                                        CorruptStoreFile)
    /\ clock' = clock + 1
    /\ Called("add_document",
              [doc_id |-> doc_id, filename |-> filename, content |-> content,
               summary |-> summary, file_type |-> file_type],
              Ok(doc_id))
    /\ UNCHANGED graphVars

\* delete_document: returns False, and saves nothing, when the id is unknown
DeleteDocument(doc_id, faults) ==
    /\ nops < MaxOps
    /\ LET st2 == SDeleteDocument(Store, doc_id)
           trace == IF HasId(documents, doc_id) THEN <<st2>> ELSE <<>>
       IN  /\ SetStore(st2)
           /\ \E pick \in Picks(trace, faults) :
                store_file' = FileAfter(store_file, StoreSnapshots(trace), pick,
                                        CorruptStoreFile)
    /\ Called("delete_document", [doc_id |-> doc_id],
              IF HasId(documents, doc_id) THEN Ok(TRUE) ELSE Failure)
    /\ UNCHANGED <<graphVars, clock>>

\* clear_store
ClearStore(faults) ==
    /\ nops < MaxOps
    /\ SetStore(EmptyStore)
    /\ \E pick \in Picks(<<EmptyStore>>, faults) :
            store_file' = FileAfter(store_file, StoreSnapshots(<<EmptyStore>>), pick,
                                        CorruptStoreFile)
    /\ Called("clear_store", <<>>, Ok(<<>>))
    /\ UNCHANGED <<graphVars, clock>>

-----------------------------------------------------------------------------
(* add_entities_from_document in two threads, every add_entity and every    *)
(* add_relationship made under one lock                                     *)

\* the two threads, and the document each of them ingests
RunIds == {1, 2}
DocOfRun == <<"d1", "d2">>

\* a thread that has not called add_entities_from_document
IdleRun ==
    [pc |-> "idle", doc_id |-> "", records |-> <<>>, next |-> 0, added |-> <<>>,
     i |-> 0, j |-> 0]
NoRuns == [r \in RunIds |-> IdleRun]

\* the next pair (i, j) of the two loops of _detect_cooccurrence_relationships,
\* at or after (i, j), for which add_relationship is called (the ids
\* differ); <<0, 0>> when the loops are over
RECURSIVE NextPair(_, _, _)
NextPair(entity_ids, i, j) ==
    IF i > Len(entity_ids) THEN <<0, 0>>
    ELSE IF j > Len(entity_ids) THEN NextPair(entity_ids, i + 1, i + 2)
    ELSE IF entity_ids[i] # entity_ids[j] THEN <<i, j>>
    ELSE NextPair(entity_ids, i, j + 1)

\* where a run goes on after the pair before (i, j): to the next call of
\* add_relationship, or to its return
AtPair(run, entity_ids, i, j) ==
    LET pair == NextPair(entity_ids, i, j)
    IN  [run EXCEPT !.pc = IF pair = <<0, 0>> THEN "done" ELSE "pairs",
                    !.added = entity_ids, !.i = pair[1], !.j = pair[2]]

\* a thread calls add_entities_from_document(doc_id, records, full_text)
BeginIngestion(r, records) ==
    /\ runs[r].pc = "idle"
    /\ runs' = [runs EXCEPT ![r] =
            IF records = <<>> THEN [IdleRun EXCEPT !.pc = "done", !.doc_id = DocOfRun[r]]
            ELSE [IdleRun EXCEPT !.pc = "entities", !.doc_id = DocOfRun[r],
                                 !.records = records, !.next = 1]]
    /\ UNCHANGED <<graphVars, storeVars, clock, nops, last, prev>>

\* the thread makes the add_entity call of its next record, under the lock;
\* after the last record it goes on to the loops over the pairs
IngestEntity(r, full_text) ==
    /\ runs[r].pc = "entities"
    /\ LET run == runs[r]
           rec == run.records[run.next]
           g2 == GAddEntity(Graph, RecordText(rec), RecordLabel(rec), run.doc_id,
                        ExtractContext(full_text, RecordText(rec), Window),
                        RecordScore(rec), clock)
           added == Append(run.added, AddEntityId(RecordText(rec), RecordLabel(rec)))
       IN  /\ SetGraph(g2)
           /\ graph_file' = GraphSnapshot(g2)
           /\ runs' = [runs EXCEPT ![r] =
                IF run.next < Len(run.records)
                THEN [run EXCEPT !.next = run.next + 1, !.added = added]
                ELSE AtPair(run, added, 1, 2)]
    /\ clock' = clock + 1
    /\ UNCHANGED <<storeVars, nops, last, prev>>

\* the thread makes the add_relationship call of its next pair, under the
\* lock; after the last pair add_entities_from_document returns
IngestPair(r) ==
    /\ runs[r].pc = "pairs"
    /\ LET run == runs[r]
           source_id == run.added[run.i]
           target_id == run.added[run.j]
           g2 == GAddRelationship(Graph, source_id, target_id, CO_OCCURS, run.doc_id,
                                  CoOccurSentence(run.doc_id), Half)
       IN  /\ SetGraph(g2)
           /\ graph_file' = IF EndpointsExist(Graph, source_id, target_id)
                            THEN GraphSnapshot(g2) ELSE graph_file
           /\ runs' = [runs EXCEPT ![r] = AtPair(run, run.added, run.i, run.j + 1)]
    /\ UNCHANGED <<storeVars, clock, nops, last, prev>>

\* A restart of the process: the two singletons are constructed again, each
\* from its file (KnowledgeGraphService.__init__, DocumentStoreService.__init__)
Restart ==
    /\ nops < MaxOps
    /\ SetGraph(LoadGraph(graph_file))
    /\ SetStore(LoadStore(store_file))
    /\ Called("restart", <<>>, Ok(<<>>))
    /\ UNCHANGED <<graph_file, store_file, clock>>

-----------------------------------------------------------------------------
(* reasoning_engine.py: entity and connection queries                       *)

\* None of Python, where a string or an id is expected (no string of the
\* model has an element that is not a single character)
None == <<"None">>

\* str.upper()
Upper(s) == [i \in 1..Len(s) |-> UpperChar(s[i])]

\* find_entity builds its list by iterating a set of ids, and Python does not
\* fix the order of a set of strings (it varies with the hash seed).  `first`
\* says, for each key of the entity index, which id heads the list
\* find_entity returns for it (None when the list is empty); Firsts is the
\* set of the orders a run can show.
Firsts(g) ==
    {first \in [DOMAIN g.entity_index -> Ids(g.entities) \cup {None}] :
        \A k \in DOMAIN g.entity_index :
            LET found == {eid \in g.entity_index[k] : HasId(g.entities, eid)}
            IN  IF found = {} THEN first[k] = None ELSE first[k] \in found}

\* find_entity(text)[0], None when find_entity(text) is empty
FirstFound(g, text, first) ==
    IF Lower(text) \in DOMAIN g.entity_index THEN first[Lower(text)] ELSE None

\* KnowledgeGraphService.find_entity_across_documents
FindEntityAcrossDocuments(g, entity_text, first) ==
    LET eid == FirstFound(g, entity_text, first)
        entity == EntityOf(g, eid)
    IN  IF eid = None
        THEN [found |-> FALSE, entity |-> None, documents |-> <<>>]
        ELSE [found |-> TRUE,
              entity |-> [id |-> entity.id, canonical_name |-> entity.canonical_name,
                          type |-> entity.entity_type,
                          mention_count |-> Len(entity.mentions)],
              documents |-> [i \in 1..Len(entity.mentions) |->
                                [document_id |-> entity.mentions[i].document_id,
                                 context |-> entity.mentions[i].context,
                                 confidence |-> entity.mentions[i].confidence]]]

\* faulty variant (sensitivity of C16): only the relationships that start at
\* the entity
GetEntityRelationships_SourceOnly(g, entity_id) ==
    SelectSeq(g.relationships, LAMBDA rel : rel.source_entity_id = entity_id)

\* KnowledgeGraphService.get_entity_relationships
GetEntityRelationships(g, entity_id) ==
    SelectSeq(g.relationships,
              LAMBDA rel : rel.source_entity_id = entity_id \/ rel.target_entity_id = entity_id)

\* the other end of a relationship of entity_id (query_entity, find_connections)
OtherEnd(rel, entity_id) ==
    IF rel.source_entity_id = entity_id THEN rel.target_entity_id ELSE rel.source_entity_id

\* ReasoningEngine._suggest_similar_entities
SuggestSimilarEntities(g, query) ==
    LET matching == SelectSeq(g.entities,
                        LAMBDA entity : Contains(Lower(entity.canonical_name), Lower(query)))
    IN  SliceTo([i \in 1..Len(matching) |-> matching[i].canonical_name], 5)

\* the keys of by_relation in _generate_entity_summary, in order of insertion
RECURSIVE RelationTypesOf(_, _)
RelationTypesOf(related, seen) ==
    IF related = <<>> THEN seen
    ELSE RelationTypesOf(Tail(related),
            IF \E i \in DOMAIN seen : seen[i] = Head(related).relationship THEN seen
            ELSE Append(seen, Head(related).relationship))

\* ReasoningEngine._generate_entity_summary.  A sentence is kept as the values
\* its template is filled with: "<name> is a <type> mentioned in <documents>
\* document(s)." and, for each relation type, "It appears together with:
\* <names>." (CO_OCCURS, 5 names) or "It <relation> <names>." (3 names).
GenerateEntitySummary(entity_info, doc_mentions, related) ==
    LET rel_types == RelationTypesOf(related, <<>>)
        NamesOf(t) ==
            LET of_type == SelectSeq(related, LAMBDA r : r.relationship = t)
            IN  [i \in 1..Len(of_type) |-> of_type[i].name]
    IN  << [name |-> entity_info.canonical_name, type |-> entity_info.type,
            documents |-> Len(doc_mentions)] >>
        \o [i \in 1..Len(rel_types) |->
                [relation |-> rel_types[i],
                 names |-> SliceTo(NamesOf(rel_types[i]),
                                   IF rel_types[i] = CO_OCCURS THEN 5 ELSE 3)]]

\* ReasoningEngine.query_entity
QueryEntity(g, st, entity_name, first) ==
    LET search_result == FindEntityAcrossDocuments(g, entity_name, first)
        entity_info == search_result.entity
        doc_mentions == search_result.documents
        relationships_of == SelectSeq(GetEntityRelationships(g, entity_info.id),
                                LAMBDA rel : HasId(g.entities, OtherEnd(rel, entity_info.id)))
        related_entities ==
            [i \in 1..Len(relationships_of) |->
                LET other == EntityOf(g, OtherEnd(relationships_of[i], entity_info.id))
                IN  [name |-> other.canonical_name, type |-> other.entity_type,
                     relationship |-> relationships_of[i].relation_type,
                     confidence |-> relationships_of[i].confidence]]
        stored == SelectSeq(doc_mentions, LAMBDA dm : HasId(st.documents, dm.document_id))
        doc_summaries ==
            [i \in 1..Len(stored) |->
                LET doc == st.documents[PosOf(st.documents, stored[i].document_id)]
                IN  [document_id |-> doc.id, filename |-> doc.filename,
                     context |-> stored[i].context, relevance |-> stored[i].confidence]]
    IN  IF ~search_result.found
        THEN [success |-> FALSE,
              message |-> [entity |-> entity_name, text |-> "not found in any document"],
              suggestions |-> SuggestSimilarEntities(g, entity_name)]
        ELSE [success |-> TRUE,
              entity |-> [name |-> entity_info.canonical_name, type |-> entity_info.type,
                          mention_count |-> entity_info.mention_count],
              documents |-> doc_summaries,
              related_entities |-> related_entities,
              summary |-> GenerateEntitySummary(entity_info, doc_mentions, related_entities)]

\* faulty variant (sensitivity of C13): only relationships from the first
\* entity to the second count as direct
Connects_Forward(rel, a, b) == rel.source_entity_id = a /\ rel.target_entity_id = b

\* the test of the first loop of find_connections: rel joins a and b, in
\* either direction
Connects(rel, a, b) ==
    \/ rel.source_entity_id = a /\ rel.target_entity_id = b
    \/ rel.source_entity_id = b /\ rel.target_entity_id = a

\* faulty variant (sensitivity of C14): shared documents are looked at first
ConnectionStrength_SharedFirst(direct_relations, shared_docs) ==
    IF shared_docs # {} THEN "moderate"
    ELSE IF direct_relations # <<>> THEN "strong"
    ELSE "weak"

\* connection_strength of find_connections
ConnectionStrength(direct_relations, shared_docs) ==
    IF direct_relations # <<>> THEN "strong"
    ELSE IF shared_docs # {} THEN "moderate"
    ELSE "weak"

\* ReasoningEngine._summarize_connection: which of the four sentences, and the
\* values it is filled with
SummarizeConnection(e1, e2, relations, shared_docs, common) ==
    IF relations # <<>>
    THEN [sentence |-> "direct", names |-> <<e1.canonical_name, e2.canonical_name>>,
          relations |-> Len(relations), documents |-> Cardinality(shared_docs)]
    ELSE IF shared_docs # {}
    THEN [sentence |-> "same documents", names |-> <<e1.canonical_name, e2.canonical_name>>,
          documents |-> Cardinality(shared_docs)]
    ELSE IF common # {}
    THEN [sentence |-> "common entities", names |-> <<e1.canonical_name, e2.canonical_name>>,
          common |-> Cardinality(common)]
    ELSE [sentence |-> "no clear connection",
          names |-> <<e1.canonical_name, e2.canonical_name>>]

\* the ids of the entities a relationship joins to entity_id (the second loop
\* of find_connections)
ConnectionsOf(g, entity_id) ==
    {OtherEnd(g.relationships[i], entity_id) :
        i \in {j \in DOMAIN g.relationships :
                \/ g.relationships[j].source_entity_id = entity_id
                \/ g.relationships[j].target_entity_id = entity_id}}

\* ReasoningEngine.find_connections.  shared_documents and common_connections
\* are lists made from sets: their order is not fixed and they are kept as
\* sets (common_connections as the ids behind the names it lists).
FindConnections(g, entity1, entity2, first) ==
    LET id1 == FirstFound(g, entity1, first)
        id2 == FirstFound(g, entity2, first)
        e1 == EntityOf(g, id1)
        e2 == EntityOf(g, id2)
        direct == SelectSeq(g.relationships, LAMBDA rel : Connects(rel, id1, id2))
        direct_relations ==
            [i \in 1..Len(direct) |->
                [type |-> direct[i].relation_type, confidence |-> direct[i].confidence,
                 evidence |-> direct[i].evidence]]
        e1_docs == {e1.mentions[i].document_id : i \in DOMAIN e1.mentions}
        e2_docs == {e2.mentions[i].document_id : i \in DOMAIN e2.mentions}
        shared_docs == e1_docs \cap e2_docs
        common_connections ==
            {eid \in ConnectionsOf(g, id1) \cap ConnectionsOf(g, id2) : HasId(g.entities, eid)}
    IN  IF id1 = None
        THEN [success |-> FALSE, message |-> [entity |-> entity1, text |-> "not found"]]
        ELSE IF id2 = None
        THEN [success |-> FALSE, message |-> [entity |-> entity2, text |-> "not found"]]
        ELSE [success |-> TRUE,
              entity1 |-> [name |-> e1.canonical_name, type |-> e1.entity_type],
              entity2 |-> [name |-> e2.canonical_name, type |-> e2.entity_type],
              connection_strength |-> ConnectionStrength(direct_relations, shared_docs),
              direct_relationships |-> direct_relations,
              shared_documents |-> shared_docs,
              common_connections |-> common_connections,
              summary |-> SummarizeConnection(e1, e2, direct_relations, shared_docs,
                                              common_connections)]

\* ReasoningEngine.aggregate_by_type (the documents of an entry are a list
\* made from a set, kept as a set)
AggregateByType(g, entity_type) ==
    LET of_type == SelectSeq(g.entities,
                        LAMBDA e : Upper(e.entity_type) = Upper(entity_type))
        sorted == SortByKeyDesc([i \in 1..Len(of_type) |->
                        [key |-> Len(of_type[i].mentions), item |-> of_type[i]]])
        top == SliceTo(sorted, 50)
    IN  [success |-> TRUE, entity_type |-> entity_type, count |-> Len(of_type),
         entities |-> [i \in 1..Len(top) |->
                        [name |-> top[i].item.canonical_name,
                         mention_count |-> Len(top[i].item.mentions),
                         documents |-> {top[i].item.mentions[k].document_id :
                                            k \in DOMAIN top[i].item.mentions}]]]

\* the distinct elements of a sequence, in the order of their first
\* occurrence (the keys of a dict filled in that order)
RECURSIVE DistinctInOrder(_)
DistinctInOrder(seq) ==
    IF seq = <<>> THEN <<>>
    ELSE LET before == DistinctInOrder(SubSeq(seq, 1, Len(seq) - 1))
         IN  IF seq[Len(seq)] \in Range(before) THEN before
             ELSE Append(before, seq[Len(seq)])

\* the entry find_contradictions makes for an entity: doc_contexts groups
\* the contexts by document, the first context of each document is reported
ContradictionEntry(entity) ==
    LET mention_docs == [k \in DOMAIN entity.mentions |-> entity.mentions[k].document_id]
        doc_ids == DistinctInOrder(mention_docs)
    IN  [entity |-> entity.canonical_name,
         type |-> entity.entity_type,
         documents |-> doc_ids,
         contexts |-> [d \in Range(doc_ids) |->
            entity.mentions[CHOOSE k \in DOMAIN mention_docs :
                /\ mention_docs[k] = d
                /\ \A j \in 1..(k - 1) : mention_docs[j] # d].context],
         potential_issue |-> "Entity appears in multiple documents - manual review recommended"]

\* find_contradictions flagging every entity that has two mentions
FindContradictions_ByMentionCount(g) ==
    LET flagged == SelectSeq(g.entities, LAMBDA e : Len(e.mentions) >= 2)
        contradictions == [i \in DOMAIN flagged |-> ContradictionEntry(flagged[i])]
    IN  [success |-> TRUE,
         potential_contradictions |-> SliceTo(contradictions, 20),
         total_flagged |-> Len(contradictions)]

\* ReasoningEngine.find_contradictions
FindContradictions(g) ==
    LET flagged == SelectSeq(g.entities, LAMBDA e :
                        /\ ~(Len(e.mentions) < 2)
                        /\ Len(ContradictionEntry(e).documents) > 1)
        contradictions == [i \in DOMAIN flagged |-> ContradictionEntry(flagged[i])]
    IN  [success |-> TRUE,
         potential_contradictions |-> SliceTo(contradictions, 20),
         total_flagged |-> Len(contradictions)]

-----------------------------------------------------------------------------
(* reasoning_engine.py: answer_question                                     *)

\* the phrases answer_question looks for, the words of its regular
\* expressions and the type tags of its type_map
P_WhatDoWeKnowAbout == <<"w","h","a","t"," ","d","o"," ","w","e"," ","k","n",
    "o","w"," ","a","b","o","u","t">>
P_TellMeAbout == <<"t","e","l","l"," ","m","e"," ","a","b","o","u","t">>
P_HowIs == <<"h","o","w"," ","i","s">>
P_RelatedTo == <<"r","e","l","a","t","e","d"," ","t","o">>
P_ListAll == <<"l","i","s","t"," ","a","l","l">>
P_WhichDocuments == <<"w","h","i","c","h"," ","d","o","c","u","m","e","n","t",
    "s">>
P_WhereIs == <<"w","h","e","r","e"," ","i","s">>
W_about == <<"a","b","o","u","t">>
W_related == <<"r","e","l","a","t","e","d">>
W_connected == <<"c","o","n","n","e","c","t","e","d">>
W_to == <<"t","o">>
K_person == <<"p","e","r","s","o","n">>
K_people == <<"p","e","o","p","l","e">>
K_organization == <<"o","r","g","a","n","i","z","a","t","i","o","n">>
K_company == <<"c","o","m","p","a","n","y">>
K_location == <<"l","o","c","a","t","i","o","n">>
K_place == <<"p","l","a","c","e">>
K_date == <<"d","a","t","e">>
PER == <<"P","E","R">>
DATE == <<"D","A","T","E">>

\* the classes [a-zA-Z\s] and \s of the regular expressions
LetterOrSpace == UpperSet \cup LowerSet \cup Whitespace

\* the index of the last character of the maximal run of characters of
\* `chars` that starts at index from (from - 1 when that run is empty)
RECURSIVE RunEnd(_, _, _)
RunEnd(s, from, chars) ==
    IF from <= Len(s) /\ s[from] \in chars THEN RunEnd(s, from + 1, chars) ELSE from - 1

\* the word w stands in s at index k
MatchAt(s, k, w) == k >= 1 /\ k + Len(w) - 1 <= Len(s) /\ SubSeq(s, k, k + Len(w) - 1) = w

MinOf(S) == CHOOSE x \in S : \A y \in S : x <= y
MaxOf(S) == CHOOSE x \in S : \A y \in S : x >= y

\* re.findall(r'"([^"]+)"', question)[0]: the text between the first quote
\* that is followed by at least one other character and the next quote
FirstQuoted(question) ==
    LET quotes == {i \in DOMAIN question : question[i] = "\""}
        opens == {i \in quotes : \E j \in quotes :
                    j > i + 1 /\ \A k \in (i + 1)..(j - 1) : k \notin quotes}
        open == MinOf(opens)
        close == MinOf({j \in quotes : j > open})
    IN  IF opens = {} THEN None ELSE SubSeq(question, open + 1, close - 1)

\* re.search(r'about\s+([A-Z][a-zA-Z\s]+)', question).group(1): "about" as
\* written (the search is case-sensitive), white space, an upper-case letter
\* and at least one more letter or space; the leftmost place where that
\* matches, the group as long as it can be
AboutGroup(question) ==
    LET GroupStart(p) == RunEnd(question, p + Len(W_about) + 1, Whitespace) + 1
        Matches(p) ==
            /\ GroupStart(p) > p + Len(W_about) + 1
            /\ GroupStart(p) <= Len(question)
            /\ question[GroupStart(p)] \in UpperSet
            /\ RunEnd(question, GroupStart(p) + 1, LetterOrSpace) > GroupStart(p)
        starts == {p \in Occurrences(question, W_about) : Matches(p)}
        start == GroupStart(MinOf(starts))
    IN  IF starts = {} THEN None
        ELSE SubSeq(question, start, RunEnd(question, start + 1, LetterOrSpace))

\* ReasoningEngine._extract_entity_from_question
ExtractEntityFromQuestion(question) ==
    IF FirstQuoted(question) # None THEN FirstQuoted(question)
    ELSE IF AboutGroup(question) # None THEN Strip(AboutGroup(question))
    ELSE None

\* ReasoningEngine._extract_two_entities: re.search of
\* how is\s+([A-Za-z\s]+)\s+(?:related|connected)\s+to\s+([A-Za-z\s]+) with
\* IGNORECASE.  after is the index that follows "how is"; the first group
\* and the white space around it fill after..k-1, where k is the index of
\* the keyword; the group is greedy, so k is the last index that lets the
\* rest match; the second group runs on as far as letters and spaces go.
\* strip() removes the white space the groups took, and rstrip('?') finds
\* no '?' in a group of letters and spaces.
ExtractTwoEntities(question) ==
    LET lowered == Lower(question)
        KeywordAt(k) ==
            IF MatchAt(lowered, k, W_related) THEN W_related
            ELSE IF MatchAt(lowered, k, W_connected) THEN W_connected
            ELSE <<>>
        \* the index of the white space that follows "to"
        AfterTo(k) == RunEnd(question, k + Len(KeywordAt(k)), Whitespace) + 1 + Len(W_to)
        RestMatches(k) ==
            /\ KeywordAt(k) # <<>>
            /\ RunEnd(question, k + Len(KeywordAt(k)), Whitespace) >= k + Len(KeywordAt(k))
            /\ MatchAt(lowered, AfterTo(k) - Len(W_to), W_to)
            /\ AfterTo(k) <= Len(question)
            /\ question[AfterTo(k)] \in Whitespace
            /\ RunEnd(question, AfterTo(k), LetterOrSpace) > AfterTo(k)
        Keywords(after) ==
            {k \in (after + 3)..Len(question) :
                /\ question[after] \in Whitespace
                /\ question[k - 1] \in Whitespace
                /\ RunEnd(question, after, LetterOrSpace) >= k - 1
                /\ RestMatches(k)}
        starts == {p \in Occurrences(lowered, P_HowIs) : Keywords(p + Len(P_HowIs) + 1) # {}}
        after == MinOf(starts) + Len(P_HowIs) + 1
        keyword == MaxOf(Keywords(after))
    IN  IF starts = {} THEN None
        ELSE << Strip(SubSeq(question, after, keyword - 1)),
                Strip(SubSeq(question, AfterTo(keyword),
                             RunEnd(question, AfterTo(keyword), LetterOrSpace))) >>

\* the loop of the "list all" branch: the type tag of the first word of the
\* list that the question contains, None when it contains none
ListedType(question_lower) ==
    LET words == <<K_person, K_people, K_organization, K_company, K_location,
                   K_place, K_date>>
        type_map == <<PER, PER, ORG, ORG, LOC, LOC, DATE>>
        found == {i \in DOMAIN words : Contains(question_lower, words[i])}
    IN  IF found = {} THEN None ELSE type_map[MinOf(found)]

\* faulty variant (sensitivity of C18): the extracted name is used unchecked
Truthy_Always(value) == TRUE

\* "if entity:": neither None nor empty
Truthy(value) == value # None /\ value # <<>>

\* The branch answer_question takes and what it extracted: the handler it
\* goes to ("search" is the default at the end, also reached when a branch
\* was entered and did not return).
Dispatch(question) ==
    LET question_lower == Lower(question)
        entity == ExtractEntityFromQuestion(question)
        two == ExtractTwoEntities(question)
        search == [handler |-> "search"]
    IN  IF \/ Contains(question_lower, P_WhatDoWeKnowAbout)
           \/ Contains(question_lower, P_TellMeAbout)
        THEN IF Truthy(entity) THEN [handler |-> "query_entity", entity |-> entity]
             ELSE search
        ELSE IF Contains(question_lower, P_HowIs) /\ Contains(question_lower, P_RelatedTo)
        THEN IF two # None
             THEN [handler |-> "find_connections", entity1 |-> two[1], entity2 |-> two[2]]
             ELSE search
        ELSE IF Contains(question_lower, P_ListAll)
        THEN IF ListedType(question_lower) # None
             THEN [handler |-> "aggregate_by_type",
                   entity_type |-> ListedType(question_lower)]
             ELSE search
        ELSE IF \/ Contains(question_lower, P_WhichDocuments)
                \/ Contains(question_lower, P_WhereIs)
        THEN IF Truthy(entity) THEN [handler |-> "query_entity", entity |-> entity]
             ELSE search
        ELSE search

\* an exception that leaves the call (the name of its class)
Raised(exception) == [raised |-> exception]

\* the default of answer_question: the first 10 results of search_full_text
SearchAnswer(st, question) ==
    LET results == SliceTo(SearchFullText(st, question, 10), 10)
    IN  [success |-> TRUE, type |-> "search", query |-> question,
         results |-> [i \in 1..Len(results) |->
                        [document_id |-> results[i].item,
                         filename |-> st.documents[PosOf(st.documents,
                                                         results[i].item)].filename,
                         relevance |-> results[i].key]]]

\* What answer_question returns once its branch is chosen.  A handler given
\* None for a name fails in find_entity, at text.lower().
Respond(g, st, question, route, first) ==
    IF route.handler = "query_entity"
    THEN IF route.entity = None THEN Raised("AttributeError")
         ELSE QueryEntity(g, st, route.entity, first)
    ELSE IF route.handler = "find_connections"
    THEN IF route.entity1 = None \/ route.entity2 = None THEN Raised("AttributeError")
         ELSE FindConnections(g, route.entity1, route.entity2, first)
    ELSE IF route.handler = "aggregate_by_type"
    THEN AggregateByType(g, route.entity_type)
    ELSE SearchAnswer(st, question)

\* ReasoningEngine.answer_question
AnswerQuestion(g, st, question, first) ==
    Respond(g, st, question, Dispatch(question), first)

-----------------------------------------------------------------------------
(* endpoints.py: the upload of a document                                   *)

T_AcmeCorp == <<"A","c","m","e"," ","C","o","r","p">>
T_JaneSmith == <<"J","a","n","e"," ","S","m","i","t","h">>
T_BobLee == <<"B","o","b"," ","L","e","e">>
TextDoc1 == <<"A","c","m","e"," ","C","o","r","p"," ","h","i","r","e","d"," ",
    "J","a","n","e"," ","S","m","i","t","h",".">>
TextDoc2 == <<"J","a","n","e"," ","S","m","i","t","h"," ","m","e","t"," ","B",
    "o","b"," ","L","e","e",".">>

\* what OCR and NER hand to the upload handler: the text and its entity records
Doc1 ==
    [filename |-> "doc1.pdf", text |-> TextDoc1,
     records |-> << [text |-> T_AcmeCorp, label |-> ORG, score |-> One],
                    [text |-> T_JaneSmith, label |-> PERSON, score |-> One] >>]
Doc2 ==
    [filename |-> "doc2.pdf", text |-> TextDoc2,
     records |-> << [text |-> T_JaneSmith, label |-> PERSON, score |-> One],
                    [text |-> T_BobLee, label |-> PERSON, score |-> One] >>]
Uploads == {Doc1, Doc2}

\* upload_document, from the call of add_entities_from_document on: the
\* entities go to the knowledge graph, then the document goes to the document
\* store with the ids of those entities.  doc_id is a new uuid4.
UploadDocument(doc_id, filename, extracted_text, summary, records, file_type, faults) ==
    /\ nops < MaxOps
    /\ doc_id \notin Ids(documents)
    /\ doc_id \notin DOMAIN doc_entities
    /\ LET run == GIngest(Graph, doc_id, records, extracted_text, clock)
           st2 == SAddDocument(Store, doc_id, filename, extracted_text, summary,
                               file_type, run.added, EmptyDict, clock + Len(records))
       IN  /\ SetGraph(run.g)
           /\ \E pick \in Picks(run.trace, faults) :
                graph_file' = FileAfter(graph_file, GraphSnapshots(run.trace), pick,
                                        CorruptGraphFile)
           /\ SetStore(st2)
           /\ \E pick \in Picks(<<st2>>, faults) :
                store_file' = FileAfter(store_file, StoreSnapshots(<<st2>>), pick,
                                        CorruptStoreFile)
    /\ clock' = clock + Len(records) + 1
    /\ Called("upload_document", [doc_id |-> doc_id, records |-> records], Ok(doc_id))

-----------------------------------------------------------------------------
(* Specifications                                                           *)

\* both singletons constructed with no file on disk
Init ==
    /\ entities = <<>>
    /\ relationships = <<>>
    /\ entity_index = EmptyDict
    /\ doc_entities = EmptyDict
    /\ graph_file = NoGraphFile
    /\ documents = <<>>
    /\ keyword_index = EmptyDict
    /\ store_file = NoStoreFile
    /\ clock = 1
    /\ nops = 0
    /\ last = [op |-> "init", args |-> <<>>, ret |-> Ok(<<>>)]
    /\ prev = [op |-> "init", args |-> <<>>, ret |-> Ok(<<>>)]
    /\ runs = NoRuns

\* The last argument of an action says whether its writes to disk may fail
\* (see Picks); it is FALSE in the specifications below.

\* the calls on the knowledge graph, every write succeeding
Next ==
    \/ \E text \in Texts, entity_type \in Types, doc_id \in Docs :
            AddEntity(text, entity_type, doc_id, <<>>, One, FALSE)
    \/ \E source_id \in EndpointIds, target_id \in EndpointIds,
          sentence \in Sentences, confidence \in Confidences :
            AddRelationship(source_id, target_id, CO_OCCURS, "d1", sentence,
                            confidence, FALSE)
    \/ \E doc_id \in Docs, records \in RecordLists :
            AddEntitiesFromDocument(doc_id, records, FullTextAlBo, FALSE)
    \/ ClearGraph(FALSE)
    \/ Restart

Spec == Init /\ [][Next]_vars

\* the calls on the document store, every write succeeding
NextStore ==
    \/ \E doc_id \in Docs, content \in Contents :
            AddDocument(doc_id, "file.pdf", content, <<>>, "PDF", FALSE)
    \/ \E doc_id \in Docs : DeleteDocument(doc_id, FALSE)
    \/ ClearStore(FALSE)
    \/ Restart

SpecStore == Init /\ [][NextStore]_vars

\* ids given to add_relationship in the specifications of the whole system
Id_JaneSmith == AddEntityId(T_JaneSmith, PERSON)
Id_BobLee == AddEntityId(T_BobLee, PERSON)
Id_AcmeCorp == AddEntityId(T_AcmeCorp, ORG)

\* the two stores together: uploads through the API and direct calls on each
\* store, every write succeeding
NextSystem ==
    \/ \E doc_id \in Docs, u \in Uploads :
            UploadDocument(doc_id, u.filename, u.text, <<>>, u.records, "PDF", FALSE)
    \/ \E doc_id \in Docs :
            AddEntity(T_JaneSmith, PERSON, doc_id, <<>>, One, FALSE)
    \/ AddRelationship(Id_JaneSmith, Id_BobLee, CO_OCCURS, "d1", <<"stated in the text">>,
                       One, FALSE)
    \/ \E doc_id \in Docs :
            AddDocument(doc_id, "file.pdf", ContentGamma, <<>>, "PDF", FALSE)
    \/ \E doc_id \in Docs : DeleteDocument(doc_id, FALSE)
    \/ ClearGraph(FALSE)
    \/ ClearStore(FALSE)
    \/ Restart

SpecSystem == Init /\ [][NextSystem]_vars

FaultyEndpointIds == {AddEntityId(T_al, PERSON), AddEntityId(T_al, LOC)}

\* the mutating calls of the two stores when a write to disk may fail before
\* the file is opened or half way through (see Picks and FileAfter)
NextFaulty ==
    \/ \E text \in Texts, entity_type \in Types, doc_id \in Docs :
            AddEntity(text, entity_type, doc_id, <<>>, One, TRUE)
    \/ \E source_id \in FaultyEndpointIds, target_id \in FaultyEndpointIds :
            AddRelationship(source_id, target_id, CO_OCCURS, "d1", <<"stated in the text">>,
                            One, TRUE)
    \/ \E doc_id \in Docs, content \in {ContentGamma, ContentCat} :
            AddDocument(doc_id, "file.pdf", content, <<>>, "PDF", TRUE)
    \/ \E doc_id \in Docs : DeleteDocument(doc_id, TRUE)
    \/ Restart

SpecFaulty == Init /\ [][NextFaulty]_vars

\* three documents, for the ranking of get_connected_documents
Docs3 == {"d1", "d2", "d3"}
\* record lists that share entities: two entities, one of them alone, and
\* one text under two labels
SharingRecordLists ==
    { << [text |-> T_DrAl, label |-> PERSON, score |-> One],
         [text |-> T_TheBo, label |-> LOC, score |-> One] >>,
      << [text |-> T_DrAl, label |-> PERSON, score |-> One] >>,
      << [text |-> T_DrAl, label |-> PERSON, score |-> One],
         [text |-> T_DrAl, label |-> LOC, score |-> One] >> }

\* ingestions of up to three documents that share entities
NextSharing ==
    \/ \E doc_id \in Docs3, records \in SharingRecordLists :
            AddEntitiesFromDocument(doc_id, records, FullTextAlBo, FALSE)
    \/ Restart

SpecSharing == Init /\ [][NextSharing]_vars

\* a text of n words
WordsText(n) ==
    [i \in 1..(IF n = 0 THEN 0 ELSE 2 * n - 1) |-> IF i % 2 = 1 THEN "w" ELSE " "]
\* numbers of words around the chunk size and the stride of _chunk_document
WordCounts == {0, 1, 400, 401, 450, 500, 850, 901, 1300}

\* documents of up to four chunks are added under one id
NextChunks ==
    \E n \in WordCounts : AddDocument("d1", "file.pdf", WordsText(n), <<>>, "PDF", FALSE)

SpecChunks == Init /\ [][NextChunks]_vars

\* the k-th of up to 26 place names
PlaceName(k) == <<"n", LowerLetters[k]>>

\* the entity that two calls of add_entity leave, for the k-th place name
\* in the documents d1 and d2
PlaceEntity(k) ==
    GAddEntity(GAddEntity(EmptyGraph, PlaceName(k), LOC, "d1", <<>>, One, 2 * k + 1),
               PlaceName(k), LOC, "d2", <<>>, One, 2 * k + 2).entities[1]
\* and for one more name, twice in document d1
PlaceTwiceInOneDocument ==
    GAddEntity(GAddEntity(EmptyGraph, T_TheBo, LOC, "d1", <<>>, One, 1),
               T_TheBo, LOC, "d1", <<>>, One, 2).entities[1]

\* data/knowledge_graph.json after those calls for the first n place names
\* (the entities have different ids, so each call leaves the others alone)
PlacesFile(n) ==
    [kind |-> "data",
     entities |-> <<PlaceTwiceInOneDocument>> \o [k \in 1..n |-> PlaceEntity(k)],
     relationships |-> <<>>]

\* numbers of entities around the limit of find_contradictions
PlaceCounts == {0, 19, 20, 21}

\* the service starts from the file that an earlier run has left
InitLoaded ==
    \E n \in PlaceCounts :
        LET file == PlacesFile(n)
        IN  /\ graph_file = file
            /\ entities = LoadGraph(file).entities
            /\ relationships = LoadGraph(file).relationships
            /\ entity_index = LoadGraph(file).entity_index
            /\ doc_entities = LoadGraph(file).doc_entities
            /\ documents = <<>>
            /\ keyword_index = EmptyDict
            /\ store_file = NoStoreFile
            /\ clock = 2 * n + 3
            /\ nops = 0
            /\ last = [op |-> "init", args |-> <<>>, ret |-> Ok(<<>>)]
            /\ prev = [op |-> "init", args |-> <<>>, ret |-> Ok(<<>>)]
            /\ runs = NoRuns

\* calls of add_entity on a graph that was loaded with many entities
NextLoaded ==
    \/ \E text \in {T_al, T_TheBo, PlaceName(1)}, doc_id \in Docs :
            AddEntity(text, LOC, doc_id, <<>>, One, FALSE)
    \/ Restart

SpecLoaded == InitLoaded /\ [][NextLoaded]_vars

\* two threads ingest one document each; the lock lets their add_entity and
\* add_relationship calls through one at a time, in any order
NextConcurrent ==
    \/ \E r \in RunIds, records \in RecordLists : BeginIngestion(r, records)
    \/ \E r \in RunIds : IngestEntity(r, FullTextAlBo)
    \/ \E r \in RunIds : IngestPair(r)

SpecConcurrent == Init /\ [][NextConcurrent]_vars

\* record lists that name two entities in either order, one entity twice,
\* and three entities
UploadRecordLists ==
    { << [text |-> T_AcmeCorp, label |-> ORG, score |-> One],
         [text |-> T_JaneSmith, label |-> PERSON, score |-> One] >>,
      << [text |-> T_JaneSmith, label |-> PERSON, score |-> One],
         [text |-> T_AcmeCorp, label |-> ORG, score |-> One] >>,
      << [text |-> T_JaneSmith, label |-> PERSON, score |-> One],
         [text |-> T_BobLee, label |-> PERSON, score |-> One],
         [text |-> T_JaneSmith, label |-> PERSON, score |-> One] >>,
      << [text |-> T_AcmeCorp, label |-> ORG, score |-> One],
         [text |-> T_JaneSmith, label |-> PERSON, score |-> One],
         [text |-> T_BobLee, label |-> PERSON, score |-> One] >> }

\* the graph is filled by uploads only, each under a new document id
NextUploads ==
    \/ \E doc_id \in Docs3, records \in UploadRecordLists :
            UploadDocument(doc_id, "doc.pdf", TextDoc1, <<>>, records, "PDF", FALSE)
    \/ Restart

SpecUploads == Init /\ [][NextUploads]_vars

-----------------------------------------------------------------------------
(* Properties of the knowledge graph                                        *)

Stepped == nops' = nops + 1

\* C1: the id an add_entity call returns is the id of every raw text that
\* canonicalizes to the same name under the same type; the store holds
\* exactly one entity with that id; the call appends exactly one mention to
\* it (to the one already stored, when there is one) and leaves the other
\* entities alone.  So a call whose text canonicalizes to the canonical name
\* of a stored entity of the same type returns that entity and adds none.
C1_SameCanonicalSameEntity ==
    [][(Stepped /\ last'.op = "add_entity") =>
        /\ \A text \in Texts \cup {T_TheBo} :
            Canonicalize(text, last'.args.entity_type)
                = Canonicalize(last'.args.text, last'.args.entity_type)
            => AddEntityId(text, last'.args.entity_type) = last'.ret.val
        /\ Cardinality({i \in DOMAIN entities' : entities'[i].id = last'.ret.val}) = 1
        /\ LET pos == PosOf(entities, last'.ret.val)
           IN  IF pos # 0
               THEN /\ Len(entities') = Len(entities)
                    /\ Len(entities'[pos].mentions) = Len(entities[pos].mentions) + 1
                    /\ SubSeq(entities'[pos].mentions, 1, Len(entities[pos].mentions))
                            = entities[pos].mentions
               ELSE /\ SubSeq(entities', 1, Len(entities)) = entities
                    /\ Len(entities') = Len(entities) + 1
                    /\ Len(entities'[Len(entities')].mentions) = 1
        /\ \A i \in DOMAIN entities :
            (/\ entities[i].entity_type = last'.args.entity_type
             /\ entities[i].canonical_name =
                    Canonicalize(last'.args.text, last'.args.entity_type))
            => /\ last'.ret.val = entities[i].id
               /\ Len(entities') = Len(entities)
               /\ Len(entities'[i].mentions) = Len(entities[i].mentions) + 1
               /\ \A j \in DOMAIN entities : j # i => entities'[j] = entities[j]
        /\ \A i, j \in DOMAIN entities' :
            entities'[i].id = entities'[j].id => i = j]_vars

\* two consecutive add_entity calls with different raw texts were merged into
\* one entity that now has two mentions
C1_Witness ==
    /\ prev.op = "add_entity" /\ last.op = "add_entity"
    /\ prev.args.text # last.args.text
    /\ prev.args.entity_type = last.args.entity_type
    /\ Canonicalize(prev.args.text, prev.args.entity_type)
            = Canonicalize(last.args.text, last.args.entity_type)
    /\ prev.ret.val = last.ret.val
    /\ Len(entities) = 1
    /\ Len(entities[1].mentions) = 2

\* C2: every stored relationship has both its source and its target in the
\* entity collection.
C2_NoDanglingEdge ==
    \A i \in DOMAIN relationships :
        /\ relationships[i].source_entity_id \in Ids(entities)
        /\ relationships[i].target_entity_id \in Ids(entities)

\* a relationship was stored right after one with a missing endpoint was refused
C2_Witness ==
    /\ prev.op = "add_relationship" /\ ~prev.ret.ok
    /\ last.op = "add_relationship" /\ last.ret.ok
    /\ relationships # <<>>

\* C3: add_relationship with a source or target that is not an entity returns
\* the failure value and changes neither the relationships (their evidence and
\* confidence included), nor the rest of the graph, nor the file.
C3_UnknownEndpointRejected ==
    [][(/\ Stepped
        /\ last'.op = "add_relationship"
        /\ \/ last'.args.source_id \notin Ids(entities)
           \/ last'.args.target_id \notin Ids(entities))
       => /\ ~last'.ret.ok
          /\ UNCHANGED <<relationships, entities, entity_index, doc_entities, graph_file>>]_vars

\* a call with exactly one endpoint missing was refused while the graph held
\* relationships
C3_Witness ==
    /\ last.op = "add_relationship" /\ ~last.ret.ok
    /\ last.args.source_id \in Ids(entities)
    /\ last.args.target_id \notin Ids(entities)
    /\ relationships # <<>>

\* the confidences of a relationship's evidence items
EvidenceConfidences(rel) == [i \in 1..Len(rel.evidence) |-> rel.evidence[i].confidence]

\* x = total / n, by cross-multiplication
IsMean(x, total, n) == x.num * total.den * n = total.num * x.den

\* C4: the confidence of every stored relationship is the arithmetic mean of
\* the confidences of its evidence items (there is at least one); in
\* particular evidence of 1.0 followed by evidence of 0.2 gives 0.6.
C4_ConfidenceIsMean ==
    \A i \in DOMAIN relationships :
        LET rel == relationships[i]
        IN  /\ Len(rel.evidence) >= 1
            /\ IsMean(rel.confidence, FracSum(EvidenceConfidences(rel)), Len(rel.evidence))
            /\ EvidenceConfidences(rel) = <<One, Fifth>> => rel.confidence = Frac(3, 5)

\* evidence of 0.2 was just added to a relationship that stood at 1.0, and its
\* confidence went down to 0.6
C4_Witness ==
    /\ prev.op = "add_relationship" /\ prev.ret.ok /\ prev.args.confidence = One
    /\ last.op = "add_relationship" /\ last.ret.ok /\ last.args.confidence = Fifth
    /\ prev.ret.val = last.ret.val
    /\ \E i \in DOMAIN relationships :
        /\ relationships[i].id = last.ret.val
        /\ EvidenceConfidences(relationships[i]) = <<One, Fifth>>
        /\ relationships[i].confidence = Frac(3, 5)
        /\ FracLess(relationships[i].confidence, One)

\* the relationships between a and b, in either direction
Between(rels, a, b) ==
    {i \in DOMAIN rels :
        \/ rels[i].source_entity_id = a /\ rels[i].target_entity_id = b
        \/ rels[i].source_entity_id = b /\ rels[i].target_entity_id = a}

PairwiseDistinct(seq) == \A i, j \in DOMAIN seq : seq[i] = seq[j] => i = j

\* C5: when the records of one ingested document resolve to k pairwise
\* distinct entities among which the graph held no relationship, the call
\* leaves the old relationships as they were and appends exactly k(k-1)/2
\* relationships: one CO_OCCURS relationship per unordered pair of the k
\* entities, each with one evidence item and confidence 0.5.
C5_CooccurrenceComplete ==
    [][(/\ Stepped
        /\ last'.op = "add_entities_from_document"
        /\ PairwiseDistinct(last'.ret.val)
        /\ \A a, b \in Range(last'.ret.val) : Between(relationships, a, b) = {})
       => LET ids == Range(last'.ret.val)
              k == Len(last'.ret.val)
              old == Len(relationships)
              fresh == (old + 1)..Len(relationships')
          IN  /\ SubSeq(relationships', 1, old) = relationships
              /\ 2 * Cardinality(fresh) = k * (k - 1)
              /\ \A i \in fresh :
                    /\ relationships'[i].relation_type = CO_OCCURS
                    /\ relationships'[i].confidence = Half
                    /\ Len(relationships'[i].evidence) = 1
                    /\ relationships'[i].source_entity_id \in ids
                    /\ relationships'[i].target_entity_id \in ids
              /\ \A a, b \in ids :
                    a # b => Cardinality(Between(relationships', a, b)) = 1]_vars

\* a document with three distinct entities was ingested and left the three
\* co-occurrence edges
C5_Witness ==
    /\ last.op = "add_entities_from_document"
    /\ Len(last.ret.val) = 3
    /\ PairwiseDistinct(last.ret.val)
    /\ Len(relationships) = 3
    /\ \A i \in DOMAIN relationships :
        relationships[i].relation_type = CO_OCCURS /\ relationships[i].confidence = Half

\* C6 (as claimed): after add_entity(text, ...) returned entity E,
\* find_entity(text) returns a collection that contains E.
C6_UpsertedTextIsFound ==
    last.op = "add_entity" => last.ret.val \in FindEntity(Graph, last.args.text)

Queries == {<<>>, <<"A","L">>, <<"o">>}
Limits == {1, 2}

MentionCount(g, entity_id) == Len(EntityOf(g, entity_id).mentions)

\* a comes before b in the ranking "more mentions first, ties in insertion order"
RankedBefore(g, a, b) ==
    \/ MentionCount(g, a) > MentionCount(g, b)
    \/ /\ MentionCount(g, a) = MentionCount(g, b)
       /\ PosOf(g.entities, a) < PosOf(g.entities, b)

MatchingIds(g, query) ==
    {g.entities[i].id : i \in {j \in DOMAIN g.entities : EntityMatches(g.entities[j], query)}}

\* result is the first `limit` entries of the ranking of all matching entities
IsTopOfRanking(g, query, limit, result) ==
    /\ PairwiseDistinct(result)
    /\ Range(result) \subseteq MatchingIds(g, query)
    /\ Len(result) = Min(limit, Cardinality(MatchingIds(g, query)))
    /\ \A i, j \in DOMAIN result : i < j => RankedBefore(g, result[i], result[j])
    /\ \A a \in Range(result), b \in MatchingIds(g, query) \ Range(result) :
            RankedBefore(g, a, b)

\* C7 (as claimed): search_entities returns the first `limit` entries of the
\* list of all matching entities ordered by mention count descending, ties in
\* insertion order.
C7_SearchReturnsTopRanked ==
    \A query \in Queries, limit \in Limits :
        IsTopOfRanking(Graph, query, limit, SearchEntities(Graph, query, limit))

-----------------------------------------------------------------------------
(* Properties of the document store                                         *)

StoreQueries ==
    {<<"a","l","p","h","a">>, <<"b","e","t","a">>, <<"B","e","t","a"," ","g","a","m","m","a">>}

\* C8 (as claimed): after delete_document(id) returned True, no bucket of the
\* keyword index contains id and search_full_text returns no result with id.
C8_DeletedIdLeavesNoTrace ==
    (last.op = "delete_document" /\ last.ret.ok) =>
        /\ \A k \in DOMAIN keyword_index : last.args.doc_id \notin keyword_index[k]
        /\ \A query \in StoreQueries :
            \A i \in DOMAIN SearchFullText(Store, query, 10) :
                SearchFullText(Store, query, 10)[i].item # last.args.doc_id

\* C9: delete_document(id) for an id that is not stored returns False and
\* leaves the documents, the keyword index and the file as they were; and a
\* delete_document(id) that follows a delete_document(id) that returned True
\* returns False.
C9_DeleteAbsentIsNoOp ==
    [][(Stepped /\ last'.op = "delete_document") =>
        /\ last'.args.doc_id \notin Ids(documents) =>
            /\ ~last'.ret.ok
            /\ UNCHANGED <<documents, keyword_index, store_file>>
        /\ (last.op = "delete_document" /\ last.ret.ok /\ last.args = last'.args) =>
            ~last'.ret.ok]_vars

\* the same id was deleted twice in a row, True then False
C9_Witness ==
    /\ prev.op = "delete_document" /\ prev.ret.ok
    /\ last.op = "delete_document" /\ ~last.ret.ok
    /\ prev.args = last.args
    /\ store_file.kind = "data"

\* two document stores answer every lookup alike: the same documents in the
\* same order, and the same set of ids under every keyword (a keyword with an
\* empty bucket counts as a keyword without bucket)
StoreEquivalent(a, b) ==
    /\ a.documents = b.documents
    /\ \A k \in (DOMAIN a.keyword_index) \cup (DOMAIN b.keyword_index) :
        DictGet(a.keyword_index, k, {}) = DictGet(b.keyword_index, k, {})

\* a graph store constructed from the file equals the one in memory
GraphReloadEqual == LoadGraph(graph_file) = Graph
\* a document store constructed from the file answers as the one in memory
StoreReloadEqual == StoreEquivalent(LoadStore(store_file), Store)

\* C10 (as claimed): a store constructed from the last written file holds the
\* state the running store holds: entities, relationships and the two indexes
\* of the graph; documents and keyword index of the document store.
C10_ReloadReconstructs == GraphReloadEqual /\ StoreReloadEqual

-----------------------------------------------------------------------------
(* Properties of persistence                                                *)

GraphMutators == {"add_entity", "add_relationship", "add_entities_from_document",
                  "clear_graph", "upload_document"}
StoreMutators == {"add_document", "delete_document", "clear_store", "upload_document"}

\* C11: a mutating call that returned (add_entity, a successful
\* add_relationship, clear_graph, add_document, a successful delete_document,
\* clear_store; an upload, which makes such calls) has written the snapshot
\* of the state it left; and, no write having failed, the entity and
\* relationship lists of the graph file are the ones in memory and the
\* document list of the store file is the one in memory (with no file
\* written yet, memory is empty).
C11_SnapshotIsMemory ==
    /\ (last.op \in GraphMutators /\ last.ret.ok) => graph_file = GraphSnapshot(Graph)
    /\ (last.op \in StoreMutators /\ last.ret.ok) => store_file = StoreSnapshot(Store)
    /\ IF graph_file.kind = "data"
       THEN graph_file.entities = entities /\ graph_file.relationships = relationships
       ELSE entities = <<>> /\ relationships = <<>>
    /\ IF store_file.kind = "data"
       THEN store_file.documents = documents
       ELSE documents = <<>>

\* a document was deleted after two uploads: both files hold what memory
\* holds, entities with relationships and the remaining document
C11_Witness ==
    /\ last.op = "delete_document" /\ last.ret.ok
    /\ prev.op = "upload_document"
    /\ graph_file.kind = "data" /\ graph_file.relationships # <<>>
    /\ graph_file.entities = entities /\ Len(entities) >= 3
    /\ store_file.kind = "data" /\ store_file.documents = documents
    /\ Len(documents) = 1

\* the call's write did not leave the snapshot of the new state on disk
GraphWriteFailed == graph_file' # GraphSnapshot(Graph')
StoreWriteFailed == store_file' # StoreSnapshot(Store')

\* C12 (as claimed): when the snapshot write of add_entity, add_relationship,
\* add_document or delete_document fails, the call returns what it returns
\* when the write succeeds, memory carries the mutation, and the file keeps
\* the content it had before the call.
C12_FailedWriteKeepsSnapshot ==
    [][Stepped =>
        /\ (last'.op = "add_entity" /\ GraphWriteFailed) =>
            /\ last'.ret = Ok(AddEntityId(last'.args.text, last'.args.entity_type))
            /\ Graph' = GAddEntity(Graph, last'.args.text, last'.args.entity_type,
                            last'.args.doc_id, last'.args.context,
                            last'.args.confidence, clock)
            /\ graph_file' = graph_file
        /\ (/\ last'.op = "add_relationship"
            /\ EndpointsExist(Graph, last'.args.source_id, last'.args.target_id)
            /\ GraphWriteFailed) =>
            /\ last'.ret = Ok(RelId(last'.args.source_id, last'.args.relation_type,
                                    last'.args.target_id))
            /\ Graph' = GAddRelationship(Graph, last'.args.source_id,
                            last'.args.target_id, last'.args.relation_type,
                            last'.args.doc_id, last'.args.sentence,
                            last'.args.confidence)
            /\ graph_file' = graph_file
        /\ (last'.op = "add_document" /\ StoreWriteFailed) =>
            /\ last'.ret = Ok(last'.args.doc_id)
            /\ Store' = SAddDocument(Store, last'.args.doc_id, last'.args.filename,
                            last'.args.content, last'.args.summary,
                            last'.args.file_type, <<>>, EmptyDict, clock)
            /\ store_file' = store_file
        /\ (/\ last'.op = "delete_document"
            /\ HasId(documents, last'.args.doc_id)
            /\ StoreWriteFailed) =>
            /\ last'.ret = Ok(TRUE)
            /\ Store' = SDeleteDocument(Store, last'.args.doc_id)
            /\ store_file' = store_file]_vars

-----------------------------------------------------------------------------
(* Properties of the reasoning engine                                       *)

\* the names given to find_connections and query_entity
ConnNames == {T_DrAl, T_al, T_TheBo}

\* the documents in which an entity is mentioned
MentionDocs(g, entity_id) ==
    {EntityOf(g, entity_id).mentions[i].document_id :
        i \in DOMAIN EntityOf(g, entity_id).mentions}

\* C13: for two names that both resolve, find_connections(A, B) and
\* find_connections(B, A) report the same connection strength, the same list
\* of direct relationships, which are the relationships between the two
\* entities in either direction, and the same set of shared documents.
C13_ConnectionsSymmetric ==
    \A first \in Firsts(Graph) : \A a, b \in ConnNames :
        (FirstFound(Graph, a, first) # None /\ FirstFound(Graph, b, first) # None) =>
            LET ab == FindConnections(Graph, a, b, first)
                ba == FindConnections(Graph, b, a, first)
                edges == Between(relationships, FirstFound(Graph, a, first),
                                 FirstFound(Graph, b, first))
            IN  /\ ab.success /\ ba.success
                /\ ab.connection_strength = ba.connection_strength
                /\ ab.direct_relationships = ba.direct_relationships
                /\ Len(ab.direct_relationships) = Cardinality(edges)
                /\ ab.shared_documents = ba.shared_documents

\* two names resolve to two entities that a relationship joins and that
\* share a document: both orders of the names report that relationship
C13_Witness ==
    \E first \in Firsts(Graph) : \E a, b \in ConnNames :
        /\ FirstFound(Graph, a, first) # None /\ FirstFound(Graph, b, first) # None
        /\ FirstFound(Graph, a, first) # FirstFound(Graph, b, first)
        /\ \E i \in DOMAIN relationships :
            /\ relationships[i].source_entity_id = FirstFound(Graph, a, first)
            /\ relationships[i].target_entity_id = FirstFound(Graph, b, first)
        /\ FindConnections(Graph, b, a, first).direct_relationships # <<>>
        /\ FindConnections(Graph, b, a, first).direct_relationships
                = FindConnections(Graph, a, b, first).direct_relationships
        /\ FindConnections(Graph, b, a, first).shared_documents # {}

\* the strength find_connections reports for the entities with these ids
\* must be: strong with a relationship between them, else moderate with a
\* document that mentions both, else weak
ExpectedStrength(g, id1, id2) ==
    IF Between(g.relationships, id1, id2) # {} THEN "strong"
    ELSE IF MentionDocs(g, id1) \cap MentionDocs(g, id2) # {} THEN "moderate"
    ELSE "weak"

\* C14: find_connections reports "strong" exactly when a relationship exists
\* between the two resolved entities in either direction, otherwise
\* "moderate" exactly when a document id is in the mentions of both,
\* otherwise "weak".
C14_StrengthClassification ==
    \A first \in Firsts(Graph) : \A a, b \in ConnNames :
        (FirstFound(Graph, a, first) # None /\ FirstFound(Graph, b, first) # None) =>
            FindConnections(Graph, a, b, first).connection_strength
                = ExpectedStrength(Graph, FirstFound(Graph, a, first),
                                   FirstFound(Graph, b, first))

\* one graph in which the three strengths are reported: a pair joined by a
\* relationship that also shares a document, a pair that only shares a
\* document, and a pair with neither
C14_Witness ==
    \E first \in Firsts(Graph) :
        /\ \E a, b \in ConnNames :
            /\ FirstFound(Graph, a, first) # None /\ FirstFound(Graph, b, first) # None
            /\ FindConnections(Graph, a, b, first).connection_strength = "strong"
            /\ FindConnections(Graph, a, b, first).shared_documents # {}
        /\ \E a, b \in ConnNames :
            /\ FirstFound(Graph, a, first) # None /\ FirstFound(Graph, b, first) # None
            /\ FirstFound(Graph, a, first) # FirstFound(Graph, b, first)
            /\ FindConnections(Graph, a, b, first).connection_strength = "moderate"
        /\ \E a, b \in ConnNames :
            /\ FirstFound(Graph, a, first) # None /\ FirstFound(Graph, b, first) # None
            /\ FindConnections(Graph, a, b, first).connection_strength = "weak"

\* the names given to query_entity: raw texts, a canonical name ("Bo"), the
\* canonical name "Al" in another casing, and a name no entity contains
EntityQueries == {T_DrAl, T_al, T_TheBo, <<"B","o">>, <<"A","L">>, <<"z","e","d">>}

C17_SummaryCountsDistinctDocuments ==
    \A first \in Firsts(Graph) : \A name \in EntityQueries :
        LET result == QueryEntity(Graph, Store, name, first)
        IN  result.success =>
                result.summary[1].documents
                    = Cardinality(MentionDocs(Graph, FirstFound(Graph, name, first)))

\* the two uploads of the end-to-end scenario were made, Doc1 then Doc2, on
\* stores that were empty
ScenarioIngested ==
    /\ nops = 2
    /\ prev.op = "upload_document" /\ prev.args.records = Doc1.records
    /\ last.op = "upload_document" /\ last.args.records = Doc2.records

\* the names query_entity lists as related through CO_OCCURS
CoOccurringNames(result) ==
    {result.related_entities[i].name :
        i \in {j \in DOMAIN result.related_entities :
                result.related_entities[j].relationship = CO_OCCURS}}

\* C16: from empty stores, after Doc1 ["Acme Corp" ORG, "Jane Smith" PERSON]
\* and Doc2 ["Jane Smith" PERSON, "Bob Lee" PERSON] went into both stores,
\* query_entity("Jane Smith") reports 2 documents and lists "Acme Corp" and
\* "Bob Lee" as CO_OCCURS-related entities, and find_connections("Acme Corp",
\* "Bob Lee") reports strength "weak", no direct relationship, no shared
\* document and "Jane Smith" as a common connection.
C16_EndToEnd ==
    ScenarioIngested =>
        \A first \in Firsts(Graph) :
            LET jane == QueryEntity(Graph, Store, T_JaneSmith, first)
                link == FindConnections(Graph, T_AcmeCorp, T_BobLee, first)
            IN  /\ jane.success
                /\ jane.entity.name = T_JaneSmith
                /\ Len(jane.documents) = 2
                /\ {jane.documents[i].document_id : i \in DOMAIN jane.documents}
                        = {prev.ret.val, last.ret.val}
                /\ jane.summary[1].documents = 2
                /\ Len(jane.related_entities) = 2
                /\ CoOccurringNames(jane) = {T_AcmeCorp, T_BobLee}
                /\ link.success
                /\ link.connection_strength = "weak"
                /\ link.direct_relationships = <<>>
                /\ link.shared_documents = {}
                /\ {EntityOf(Graph, eid).canonical_name : eid \in link.common_connections}
                        = {T_JaneSmith}

\* the scenario was run: three entities, the two co-occurrence relationships
\* and the two documents are stored, and "Jane Smith" is found with 2 documents
C16_Witness ==
    /\ ScenarioIngested
    /\ Len(entities) = 3 /\ Len(relationships) = 2 /\ Len(documents) = 2
    /\ \E first \in Firsts(Graph) :
        /\ QueryEntity(Graph, Store, T_JaneSmith, first).success
        /\ Len(QueryEntity(Graph, Store, T_JaneSmith, first).documents) = 2
        /\ FindConnections(Graph, T_AcmeCorp, T_BobLee, first).connection_strength = "weak"

\* questions for answer_question: without any of its phrases, with a phrase
\* but nothing to extract, naming entities that are unknown or known, and
\* the empty question
Q_WhatIsGamma == <<"w","h","a","t"," ","i","s"," ","g","a","m","m","a">>
Q_TellMeAboutIt == <<"t","e","l","l"," ","m","e"," ","a","b","o","u","t"," ",
    "i","t">>
Q_HowIsRelatedTo == <<"h","o","w"," ","i","s"," ","r","e","l","a","t","e","d",
    " ","t","o">>
Q_ListAll == <<"l","i","s","t"," ","a","l","l">>
Q_WhereIsIt == <<"w","h","e","r","e"," ","i","s"," ","i","t">>
Q_TellMeAboutZed == <<"T","e","l","l"," ","m","e"," ","a","b","o","u","t"," ",
    "Z","e","d"," ","Z","e","d">>
Q_HowIsZedRelated == <<"h","o","w"," ","i","s"," ","Z","e","d"," ","r","e",
    "l","a","t","e","d"," ","t","o"," ","J","a","n","e"," ","S","m","i","t",
    "h">>
Q_HowIsJaneRelatedToZed == <<"H","o","w"," ","i","s"," ","J","a","n","e"," ",
    "S","m","i","t","h"," ","r","e","l","a","t","e","d"," ","t","o"," ","Z",
    "e","d","?">>
Q_TellMeAboutJane == <<"T","e","l","l"," ","m","e"," ","a","b","o","u","t",
    " ","J","a","n","e"," ","S","m","i","t","h">>
Q_ListAllPeople == <<"l","i","s","t"," ","a","l","l"," ","p","e","o","p","l",
    "e">>
Q_WhichDocumentsBob == <<"w","h","i","c","h"," ","d","o","c","u","m","e","n",
    "t","s"," ","m","e","n","t","i","o","n"," ","\"","B","o","b"," ","L","e",
    "e","\"">>
Q_HowIsAcmeRelatedToBob == <<"h","o","w"," ","i","s"," ","A","c","m","e"," ",
    "C","o","r","p"," ","r","e","l","a","t","e","d"," ","t","o"," ","B","o",
    "b"," ","L","e","e","?">>
Questions ==
    {Q_WhatIsGamma, Q_TellMeAboutIt, Q_HowIsRelatedTo, Q_ListAll, Q_WhereIsIt,
     Q_TellMeAboutZed, Q_HowIsZedRelated, Q_HowIsJaneRelatedToZed, Q_TellMeAboutJane,
     Q_ListAllPeople, Q_WhichDocumentsBob, Q_HowIsAcmeRelatedToBob, <<>>}

\* "X" asked about in every casing of the phrase and of the name
AboutCases ==
    {[question |-> phrase \o <<" ">> \o name, name |-> name] :
        phrase \in {P_TellMeAbout, Upper(P_TellMeAbout), P_WhatDoWeKnowAbout,
                    Title(P_WhatDoWeKnowAbout)},
        name \in {T_JaneSmith, Lower(T_JaneSmith), Upper(T_JaneSmith)}}

\* "how is X related to Y" in several casings of the phrase and of the names
RelationCases ==
    {[question |-> how \o <<" ">> \o x \o <<" ">> \o
                   (IF how = P_HowIs THEN P_RelatedTo ELSE Upper(P_RelatedTo))
                   \o <<" ">> \o y \o mark,
      name1 |-> x, name2 |-> y] :
        how \in {P_HowIs, Upper(P_HowIs)},
        x \in {T_AcmeCorp, Lower(T_AcmeCorp)},
        y \in {T_BobLee, Upper(T_BobLee)},
        mark \in {<<>>, <<"?">>}}

\* the branch and the extracted names of each question (they do not depend
\* on the stores)
Routes ==
    [question \in Questions \cup {c.question : c \in AboutCases \cup RelationCases}
        |-> Dispatch(question)]

\* the question holds one of the phrases answer_question looks for
HasPattern(question) ==
    \/ Contains(Lower(question), P_WhatDoWeKnowAbout)
    \/ Contains(Lower(question), P_TellMeAbout)
    \/ Contains(Lower(question), P_HowIs) /\ Contains(Lower(question), P_RelatedTo)
    \/ Contains(Lower(question), P_ListAll)
    \/ Contains(Lower(question), P_WhichDocuments)
    \/ Contains(Lower(question), P_WhereIs)

\* the questions with no phrase, or with a phrase but no entity, pair of
\* entities or type to extract
Unanswerable ==
    {question \in Questions :
        \/ ~HasPattern(question)
        \/ /\ ExtractEntityFromQuestion(question) = None
           /\ ExtractTwoEntities(question) = None
           /\ ListedType(Lower(question)) = None}

\* C18: answer_question raises for no question and no state of the stores;
\* a question with no pattern, or with a pattern but nothing to extract, gets
\* the full-text search result of type "search"; a question that names an
\* unknown entity gets a structured not-found result.
C18_AnswerNeverRaises ==
    \A first \in Firsts(Graph) : \A question \in Questions :
        LET route == Routes[question]
            answer == Respond(Graph, Store, question, route, first)
        IN  /\ "raised" \notin DOMAIN answer
            /\ "success" \in DOMAIN answer
            /\ question \in Unanswerable =>
                /\ answer = SearchAnswer(Store, question)
                /\ answer.type = "search" /\ answer.query = question
            /\ (route.handler = "query_entity"
                    /\ FindEntity(Graph, route.entity) = {}) =>
                /\ ~answer.success
                /\ answer.message.entity = route.entity
                /\ "suggestions" \in DOMAIN answer
            /\ (route.handler = "find_connections"
                    /\ \/ FindEntity(Graph, route.entity1) = {}
                       \/ FindEntity(Graph, route.entity2) = {}) =>
                /\ ~answer.success
                /\ answer.message.entity \in {route.entity1, route.entity2}
                /\ FindEntity(Graph, answer.message.entity) = {}

\* with documents and entities stored: a question without pattern was
\* answered by a search that found a document, a question about a known
\* entity found it, and questions about unknown ones got not-found results
C18_Witness ==
    /\ documents # <<>> /\ entities # <<>>
    /\ \E first \in Firsts(Graph) :
        /\ Q_WhatIsGamma \in Unanswerable
        /\ Q_TellMeAboutIt \in Unanswerable
        /\ Respond(Graph, Store, Q_WhatIsGamma, Routes[Q_WhatIsGamma], first).results # <<>>
        /\ Respond(Graph, Store, Q_TellMeAboutIt, Routes[Q_TellMeAboutIt], first).type
                = "search"
        /\ Respond(Graph, Store, Q_TellMeAboutJane, Routes[Q_TellMeAboutJane], first).success
        /\ ~Respond(Graph, Store, Q_TellMeAboutZed, Routes[Q_TellMeAboutZed], first).success
        /\ ~Respond(Graph, Store, Q_HowIsZedRelated, Routes[Q_HowIsZedRelated], first).success

\* two results of the engine are the same dict
SameResult(a, b) == DOMAIN a = DOMAIN b /\ a = b

\* C19 (as claimed): in every casing of the question and of the name X, "what
\* do we know about X" and "tell me about X" return what query_entity(X)
\* returns, and "how is X related to Y" returns what find_connections(X, Y)
\* returns.
C19_DispatchIgnoresCase ==
    \A first \in Firsts(Graph) :
        /\ \A c \in AboutCases :
            SameResult(Respond(Graph, Store, c.question, Routes[c.question], first),
                       QueryEntity(Graph, Store, c.name, first))
        /\ \A c \in RelationCases :
            SameResult(Respond(Graph, Store, c.question, Routes[c.question], first),
                       FindConnections(Graph, c.name1, c.name2, first))

-----------------------------------------------------------------------------
(* The ranking of search_full_text                                          *)

\* the values of max_results that are tried
MaxResultsValues == {1, 2, 10}

\* the distinct terms of the query
QueryTerms(query) == Range(Split(Lower(query)))

\* terms present in the content, plus twice the terms in the keyword list
ExpectedScore(doc, query) ==
    Cardinality({t \in QueryTerms(query) : Contains(Lower(doc.content), t)})
    + 2 * Cardinality(QueryTerms(query) \cap Range(doc.keywords))

\* document a comes before document b in the ranking for the query: a higher
\* score, or the same score and an earlier place in the store
RanksBefore(a, b, query) ==
    \/ ExpectedScore(a, query) > ExpectedScore(b, query)
    \/ /\ ExpectedScore(a, query) = ExpectedScore(b, query)
       /\ PosOf(documents, a.id) < PosOf(documents, b.id)

\* C20: search_full_text(query, max_results) returns at most max_results
\* pairs (document, score), the score being the number of distinct query
\* terms present in the content plus twice the number of those in the keyword
\* list; no document of score 0 is returned; the results are in descending
\* order of score, documents of equal score in the order in which they were
\* added to the store; and no document is left out that ranks before a
\* returned one or while there is room.
C20_FullTextRanking ==
    \A query \in StoreQueries : \A max_results \in MaxResultsValues :
        LET results == SearchFullText(Store, query, max_results)
            Doc(i) == documents[PosOf(documents, results[i].item)]
            returned == {results[i].item : i \in DOMAIN results}
        IN  /\ Len(results) <= max_results
            /\ \A i \in DOMAIN results :
                /\ results[i].item \in Ids(documents)
                /\ results[i].key = ExpectedScore(Doc(i), query)
                /\ results[i].key > 0
            /\ \A i, j \in DOMAIN results : i < j => RanksBefore(Doc(i), Doc(j), query)
            /\ \A k \in DOMAIN documents :
                (ExpectedScore(documents[k], query) > 0
                        /\ documents[k].id \notin returned) =>
                    /\ Len(results) = max_results
                    /\ \A i \in DOMAIN results : RanksBefore(Doc(i), documents[k], query)

\* a store whose second document outranks its first for one query (the
\* sort has reordered them, and max_results = 1 has left the first out), and
\* whose documents tie for another
C20_Witness ==
    /\ Len(documents) = 2
    /\ \E query \in StoreQueries :
        /\ ExpectedScore(documents[2], query) > ExpectedScore(documents[1], query)
        /\ ExpectedScore(documents[1], query) > 0
        /\ SearchFullText(Store, query, 10)
            = << [key |-> ExpectedScore(documents[2], query), item |-> documents[2].id],
                 [key |-> ExpectedScore(documents[1], query), item |-> documents[1].id] >>
        /\ Len(SearchFullText(Store, query, 1)) = 1
    /\ \E query \in StoreQueries :
        /\ ExpectedScore(documents[1], query) = ExpectedScore(documents[2], query)
        /\ Len(SearchFullText(Store, query, 10)) = 2

-----------------------------------------------------------------------------
(* Documents connected through shared entities                              *)

\* the entities (by id) mentioned in both documents
SharedEntityIds(g, d, other) ==
    {id \in Ids(g.entities) : {d, other} \subseteq MentionDocs(g, id)}

\* C21 (as claimed): get_connected_documents(d) never lists d, lists exactly
\* the other documents that mention an entity also mentioned in d, reports
\* for each the number of distinct entities (by id) mentioned in both, and is
\* ordered by that count, descending.
C21_ConnectedDocuments ==
    \A d \in Docs3 : \A order \in Orderings(DictGet(doc_entities, d, {})) :
        LET results == GetConnectedDocuments(Graph, d, order)
        IN  /\ \A i \in DOMAIN results : results[i].item.doc_id # d
            /\ {results[i].item.doc_id : i \in DOMAIN results}
                = {other \in Docs3 \ {d} : SharedEntityIds(Graph, d, other) # {}}
            /\ \A i, j \in DOMAIN results :
                i # j => results[i].item.doc_id # results[j].item.doc_id
            /\ \A i \in DOMAIN results :
                results[i].key
                    = Cardinality(SharedEntityIds(Graph, d, results[i].item.doc_id))
            /\ \A i, j \in DOMAIN results : i < j => results[i].key >= results[j].key

-----------------------------------------------------------------------------
(* Keywords and chunks of a document                                        *)

\* how often a word occurs in a list of words
TokenCount(tokens, w) == Cardinality({i \in DOMAIN tokens : tokens[i] = w})

\* C22 (as claimed): the keywords of a stored document are the alphabetic
\* tokens of at least 3 letters of its lower-cased content that are no
\* stopwords, by descending frequency, cut to the top 20: so a token of 3
\* letters that is no stopword and among the 20 most frequent is a keyword.
C22_KeywordsAreTopTokens ==
    \A d \in DOMAIN documents :
        LET tokens == RegexWords(Lower(documents[d].content))
            eligible == Range(tokens) \ Stopwords
            keywords == documents[d].keywords
        IN  /\ Range(keywords) \subseteq eligible
            /\ Len(keywords) = Min(TopN, Cardinality(eligible))
            /\ \A i, j \in DOMAIN keywords : i # j => keywords[i] # keywords[j]
            /\ \A i, j \in DOMAIN keywords :
                i < j => TokenCount(tokens, keywords[i]) >= TokenCount(tokens, keywords[j])
            /\ \A w \in eligible \ Range(keywords) : \A i \in DOMAIN keywords :
                TokenCount(tokens, keywords[i]) >= TokenCount(tokens, w)

\* the keywords add_document computes for a content in an empty store
KeywordsInEmptyStore(content) ==
    SAddDocument(EmptyStore, "d0", "file.pdf", content, <<>>, "PDF", <<>>, EmptyDict, 0)
        .documents[1].keywords

\* C23: the keyword list of a document depends only on its content: whatever
\* was added or deleted before it, a stored document has the keyword list that
\* add_document computes for its content in an empty store, so two documents
\* of identical content have identical ordered keyword lists.
C23_KeywordsDependOnContentOnly ==
    /\ \A i \in DOMAIN documents :
        documents[i].keywords = KeywordsInEmptyStore(documents[i].content)
    /\ \A i, j \in DOMAIN documents :
        documents[i].content = documents[j].content
            => documents[i].keywords = documents[j].keywords

\* two documents of the same content, added to different states of the
\* store, with keywords
C23_Witness ==
    /\ Len(documents) = 2
    /\ documents[1].content = documents[2].content
    /\ documents[1].keywords # <<>>
    /\ documents[1].upload_date # documents[2].upload_date

\* the words two chunks have in common
SharedWords(a, b) == Min(a.end_word, b.end_word) - Max(a.start_word, b.start_word)

\* what C24 says of every chunk list, but for the overlap
ChunksAreWindows(chunks, n) ==
    /\ \A i \in DOMAIN chunks :
        /\ chunks[i].index = i - 1
        /\ chunks[i].start_word = (ChunkSize - Overlap) * (i - 1)
        /\ chunks[i].end_word = Min(chunks[i].start_word + ChunkSize, n)
        /\ chunks[i].end_word > chunks[i].start_word
        /\ Len(Split(chunks[i].text)) = chunks[i].end_word - chunks[i].start_word
    /\ \A p \in 0..(n - 1) : \E i \in DOMAIN chunks :
        chunks[i].start_word <= p /\ p < chunks[i].end_word

\* C24 (as claimed): the chunks of a document of n words have index i = 0, 1,
\* 2, ..., start_word = 400 * i and end_word = min(start_word + 500, n); every
\* word position lies in a chunk, every chunk is non-empty, and two
\* consecutive chunks share exactly 100 words.
C24_ChunksOverlapBy100 ==
    \A d \in DOMAIN documents :
        LET chunks == documents[d].chunks
            n == Len(Split(documents[d].content))
        IN  /\ ChunksAreWindows(chunks, n)
            /\ \A i \in 1..(Len(chunks) - 1) :
                SharedWords(chunks[i], chunks[i + 1]) = Overlap

\* C24 (amended): as claimed, but two consecutive chunks share 100 words or,
\* when the later one is the last and has fewer than 100 words, all the words
\* of the later one.
C24_ChunksOverlapUpTo100 ==
    \A d \in DOMAIN documents :
        LET chunks == documents[d].chunks
            n == Len(Split(documents[d].content))
        IN  /\ ChunksAreWindows(chunks, n)
            /\ \A i \in 1..(Len(chunks) - 1) :
                SharedWords(chunks[i], chunks[i + 1])
                    = Min(Overlap, n - chunks[i + 1].start_word)
            /\ \A i \in 1..(Len(chunks) - 1) :
                SharedWords(chunks[i], chunks[i + 1]) < Overlap
                    => /\ i + 1 = Len(chunks)
                       /\ chunks[i + 1].end_word - chunks[i + 1].start_word < Overlap

\* a document of three chunks whose last chunk has fewer than 100 words
C24_Witness ==
    \E d \in DOMAIN documents :
        /\ Len(documents[d].chunks) = 3
        /\ SharedWords(documents[d].chunks[1], documents[d].chunks[2]) = Overlap
        /\ SharedWords(documents[d].chunks[2], documents[d].chunks[3]) < Overlap

-----------------------------------------------------------------------------
(* Entities that appear in several documents                                *)

\* the ids of the entities whose mentions span at least two documents, in
\* the order of the entities
SpanningIds(g) ==
    LET ids == [i \in DOMAIN g.entities |-> g.entities[i].id]
    IN  SelectSeq(ids, LAMBDA id : Cardinality(MentionDocs(g, id)) >= 2)

\* C25: find_contradictions flags an entity if and only if its mentions span
\* at least 2 distinct documents (several mentions in one document do not
\* count); total_flagged is the number of such entities and the returned
\* list holds at most 20 of them, the first in the order of the entities.
C25_FlagsMultiDocumentEntities ==
    LET result == FindContradictions(Graph)
        listed == result.potential_contradictions
        spanning == SpanningIds(Graph)
    IN  /\ result.total_flagged = Len(spanning)
        /\ Len(listed) <= 20
        /\ Len(listed) = Min(20, Len(spanning))
        /\ \A i \in DOMAIN listed :
            /\ GenerateId(listed[i].entity, listed[i].type) = spanning[i]
            /\ Range(listed[i].documents) = MentionDocs(Graph, spanning[i])
            /\ DOMAIN listed[i].contexts = MentionDocs(Graph, spanning[i])

\* 21 entities span two documents and one has several mentions in one
\* document only: 21 are flagged and 20 are listed
C25_Witness ==
    /\ FindContradictions(Graph).total_flagged = 21
    /\ Len(FindContradictions(Graph).potential_contradictions) = 20
    /\ \E i \in DOMAIN entities :
        /\ Len(entities[i].mentions) >= 2
        /\ Cardinality(MentionDocs(Graph, entities[i].id)) = 1
    /\ last.op = "add_entity"

-----------------------------------------------------------------------------
(* The mentions of an entity                                                *)

\* the mentions of the entity with this id, none if there is no such entity
MentionsOf(g, id) == IF HasId(g.entities, id) THEN EntityOf(g, id).mentions ELSE <<>>

\* the graph after the step
GraphAfter ==
    [entities |-> entities', relationships |-> relationships',
     entity_index |-> entity_index', doc_entities |-> doc_entities']

\* C26: mentions are append-only: across an add_entity, an add_relationship
\* or an add_entities_from_document, every entity that existed still exists
\* and its mentions before the call are a prefix of its mentions after it; and
\* an add_entity lengthens the mentions of exactly one entity, the one it
\* returns, by exactly one.
C26_MentionsAppendOnly ==
    [][(Stepped /\ last'.op \in {"add_entity", "add_relationship",
                                 "add_entities_from_document"}) =>
        /\ \A id \in Ids(entities) :
            /\ id \in Ids(entities')
            /\ Len(MentionsOf(GraphAfter, id)) >= Len(MentionsOf(Graph, id))
            /\ SubSeq(MentionsOf(GraphAfter, id), 1, Len(MentionsOf(Graph, id)))
                    = MentionsOf(Graph, id)
        /\ last'.op = "add_entity" =>
            /\ Len(MentionsOf(GraphAfter, last'.ret.val))
                    = Len(MentionsOf(Graph, last'.ret.val)) + 1
            /\ \A id \in Ids(entities') \ {last'.ret.val} :
                MentionsOf(GraphAfter, id) = MentionsOf(Graph, id)
        /\ last'.op = "add_relationship" =>
            \A id \in Ids(entities') : MentionsOf(GraphAfter, id) = MentionsOf(Graph, id)
    ]_vars

\* add_entity has appended a mention to an entity that had one, beside
\* another entity
C26_Witness ==
    /\ last.op = "add_entity"
    /\ Len(MentionsOf(Graph, last.ret.val)) >= 2
    /\ Len(entities) >= 2

-----------------------------------------------------------------------------
(* Two ingestions under one lock                                            *)

\* a mention or an evidence without its place in the list and its time
MentionData(m) ==
    [document_id |-> m.document_id, context |-> m.context, confidence |-> m.confidence]

\* the multiset of the mentions of an entity: how often each occurs
MentionBag(g, id) ==
    LET mentions == MentionsOf(g, id)
    IN  [m \in {MentionData(mentions[k]) : k \in DOMAIN mentions} |->
            Cardinality({k \in DOMAIN mentions : MentionData(mentions[k]) = m})]

\* the multiset of the evidence of a relationship
EvidenceBag(rel) ==
    [e \in Range(rel.evidence) |->
        Cardinality({k \in DOMAIN rel.evidence : rel.evidence[k] = e})]

\* the same entity ids, mentions per entity, relationship ids, confidences
\* and evidence per relationship
SameOutcome(g, h) ==
    /\ Ids(g.entities) = Ids(h.entities)
    /\ \A id \in Ids(g.entities) : MentionBag(g, id) = MentionBag(h, id)
    /\ Ids(g.relationships) = Ids(h.relationships)
    /\ \A id \in Ids(g.relationships) :
        LET a == g.relationships[PosOf(g.relationships, id)]
            b == h.relationships[PosOf(h.relationships, id)]
        IN  a.confidence = b.confidence /\ EvidenceBag(a) = EvidenceBag(b)

\* the graph after the ingestion of run a, then that of run b, one after the
\* other
OneAfterTheOther(a, b) ==
    GIngest(GIngest(EmptyGraph, runs[a].doc_id, runs[a].records, FullTextAlBo, 1).g,
            runs[b].doc_id, runs[b].records, FullTextAlBo,
            1 + Len(runs[a].records)).g

\* the ids of the entities of a record list, in its order
RecordIds(records) ==
    [k \in DOMAIN records |-> AddEntityId(RecordText(records[k]), RecordLabel(records[k]))]

\* C27: when every add_entity and every add_relationship is made under one
\* lock, two add_entities_from_document calls for two documents that run at
\* the same time end, however their calls interleave, in a graph with the
\* entity ids, the mentions per entity (as a multiset), the relationship
\* ids and the confidences of the two calls made one after the other, in
\* either order; no mention and no evidence is lost: every record has its
\* mention and every pair of different entities of a document its evidence.
C27_InterleavingsAgree ==
    (\A r \in RunIds : runs[r].pc = "done") =>
        /\ SameOutcome(Graph, OneAfterTheOther(1, 2))
        /\ SameOutcome(Graph, OneAfterTheOther(2, 1))
        /\ \A r \in RunIds :
            LET ids == RecordIds(runs[r].records)
            IN  /\ \A id \in Range(ids) :
                    Cardinality({k \in DOMAIN MentionsOf(Graph, id) :
                            MentionsOf(Graph, id)[k].document_id = runs[r].doc_id})
                        = Cardinality({k \in DOMAIN ids : ids[k] = id})
                /\ \A i, j \in DOMAIN ids : (i < j /\ ids[i] # ids[j]) =>
                    LET rid == RelId(ids[i], CO_OCCURS, ids[j])
                        rel == relationships[PosOf(relationships, rid)]
                    IN  /\ HasId(relationships, rid)
                        /\ Cardinality({k \in DOMAIN rel.evidence :
                                rel.evidence[k].document_id = runs[r].doc_id})
                            = Cardinality({p \in (DOMAIN ids) \X (DOMAIN ids) :
                                p[1] < p[2] /\ ids[p[1]] = ids[i] /\ ids[p[2]] = ids[j]})

\* both calls have returned; their calls were interleaved (an entity has a
\* mention of d2 between two mentions of d1) and a relationship has
\* evidence from both documents
C27_Witness ==
    /\ \A r \in RunIds : runs[r].pc = "done"
    /\ \E e \in Range(entities) :
        \E a, b, c \in DOMAIN e.mentions :
            /\ a < b /\ b < c
            /\ e.mentions[a].document_id = "d1"
            /\ e.mentions[b].document_id = "d2"
            /\ e.mentions[c].document_id = "d1"
    /\ \E rel \in Range(relationships) :
        {rel.evidence[k].document_id : k \in DOMAIN rel.evidence} = {"d1", "d2"}

-----------------------------------------------------------------------------
(* Co-occurrence relationships after uploads                                *)

\* the CO_OCCURS relationships between two entities, in either direction
CoOccurrences(g, a, b) ==
    {k \in DOMAIN g.relationships :
        /\ g.relationships[k].relation_type = CO_OCCURS
        /\ {g.relationships[k].source_entity_id, g.relationships[k].target_entity_id}
                = {a, b}}

\* C28 (as claimed): after any sequence of add_entities_from_document calls
\* there is, for every two distinct entities, at most one CO_OCCURS
\* relationship between them, both directions counted, whatever the order of
\* the entities in each document and even when a record list names one
\* entity more than once.
C28_OneCoOccurrencePerPair ==
    \A a, b \in Ids(entities) :
        a # b => Cardinality(CoOccurrences(Graph, a, b)) <= 1

UploadNames == {T_AcmeCorp, T_JaneSmith, T_BobLee}

\* C30: when the graph is filled by uploads only, each under its own document
\* id, any two distinct entities that are mentioned in one document have a
\* CO_OCCURS relationship, so find_connections never reports "moderate" for
\* two names that resolve to distinct entities.
C30_SharedDocumentMeansDirectEdge ==
    /\ \A a, b \in Ids(entities) :
        (a # b /\ MentionDocs(Graph, a) \cap MentionDocs(Graph, b) # {})
            => CoOccurrences(Graph, a, b) # {}
    /\ \A first \in Firsts(Graph) : \A name1, name2 \in UploadNames :
        (/\ FirstFound(Graph, name1, first) # None
         /\ FirstFound(Graph, name2, first) # None
         /\ FirstFound(Graph, name1, first) # FirstFound(Graph, name2, first))
            => FindConnections(Graph, name1, name2, first).connection_strength
                    # "moderate"

\* three entities were uploaded in one document, others in another, and the
\* first and the last of the three are strongly connected
C30_Witness ==
    /\ Cardinality(DOMAIN doc_entities) >= 2
    /\ \E d \in DOMAIN doc_entities : Cardinality(doc_entities[d]) = 3
    /\ \E first \in Firsts(Graph) :
        /\ FirstFound(Graph, T_AcmeCorp, first) # None
        /\ FirstFound(Graph, T_BobLee, first) # None
        /\ FindConnections(Graph, T_AcmeCorp, T_BobLee, first).connection_strength
                = "strong"

-----------------------------------------------------------------------------
(* The graph after a document was deleted                                   *)

\* C29 (as claimed): after delete_document(d) of a document that was ingested
\* into both stores, no query over the graph refers to d: get_connected_documents
\* of another document does not list d, find_contradictions and
\* aggregate_by_type do not list d among the documents of an entity, and
\* query_entity does not count d.
C29_DeletedDocumentLeavesGraph ==
    (last.op = "delete_document" /\ last.ret.ok) =>
        LET d == last.args.doc_id
        IN  /\ \A other \in Docs \ {d} :
                \A order \in Orderings(DictGet(doc_entities, other, {})) :
                    \A i \in DOMAIN GetConnectedDocuments(Graph, other, order) :
                        GetConnectedDocuments(Graph, other, order)[i].item.doc_id # d
            /\ \A i \in DOMAIN FindContradictions(Graph).potential_contradictions :
                d \notin Range(FindContradictions(Graph).potential_contradictions[i].documents)
            /\ \A entity_type \in {PERSON, ORG} :
                \A i \in DOMAIN AggregateByType(Graph, entity_type).entities :
                    d \notin AggregateByType(Graph, entity_type).entities[i].documents
            /\ \A first \in Firsts(Graph) : \A name \in UploadNames :
                LET result == QueryEntity(Graph, Store, name, first)
                    mentions == MentionsOf(Graph, FirstFound(Graph, name, first))
                IN  result.success =>
                        result.entity.mention_count
                            = Cardinality({k \in DOMAIN mentions :
                                                mentions[k].document_id # d})

=============================================================================
